---- MODULE Spec2Model ----
(***************************************************************************)
(* Real-time aggregation core of global-scroll-service.                    *)
(*                                                                         *)
(* The Redis server is the Regional State Store: one string key per        *)
(* region height (global:height:CC), one per regional last activity        *)
(* (global:last_activity:CC), the published total (global:height) and the  *)
(* global last activity (global:last_activity).  Every Redis command is    *)
(* one atomic step; every `await` of the TypeScript code is a point where  *)
(* other handlers, timer callbacks and processes interleave.               *)
(*                                                                         *)
(* The repository holds two revisions of the unit constants: centimetres   *)
(* (src/src/config/game.constants.ts) and millimetres (part_006).  The     *)
(* services are modelled with the millimetre revision, the one the unit    *)
(* tests of the game service import (part_002:963).                        *)
(*                                                                         *)
(* Numbers: heights are decimal strings of integers in Redis; parseInt and *)
(* BigInt of such a string give the integer (exactly, below 2^53), so a    *)
(* height is an Int here.  Math.round(x) is floor(x + 1/2).  The velocity  *)
(* comparison (d / t) * 1000 > V is evaluated on exact rationals, which    *)
(* agrees with IEEE doubles on every input of the model.                   *)
(***************************************************************************)
EXTENDS Integers, Sequences, FiniteSets, TLC

(***************************************************************************)
(* Bounds of the model.                                                    *)
(***************************************************************************)
MaxBatches == 2
MaxJobs == 2
MaxRollups == 2
MaxClock == 16000
MaxFineClock == 2000
MaxIdleClock == 20001
MaxFlushes == 2
MaxAggs == 2
MaxStateCalls == 2
MaxDbClock == 172810000

(***************************************************************************)
(* Inputs.                                                                 *)
(***************************************************************************)
Users == {"u1", "u2", "u3"}
Countries == {"TH", "US"}
Slots == {1, 2}
OneSlot == {1}
JobIds == {1, 2}
RollupIds == {1, 2}
OneRollup == {1}
OneJob == {1}
AggIds == {1, 2}
StartTime == 2 * 5000

\* country determined at connection time for each socket
CountryOf(u) == IF u = "u3" THEN "US" ELSE "TH"

\* scroll deltas (device pixels) a client may send
PixelInputs == {38}
SummaryPixels == {4, 38}
BoundaryPixels == {1, 100, 7558, 7561, 10003}
ClockSteps == {6000}
DecreaseAmounts == {15}
BoundaryClockSteps == {250, 1000}
BoundaryUsers == {"u1", "u3"}
SameRegionUsers == {"u1", "u2"}
OneUser == {"u1"}
DecayPixels == {100}
MaxPixelCount == 40
MaxQueries == 1
MaxTicks == 2
MaxHotClock == 10600
MaxAwaitMs == 1
RawRanges == {"1h", "24h", "7d"}
OneAgg == {1}
HalfwayPixels == {-1000, -720, -240, -100, 100, 240, 720, 1000}
ConversionPixels == ((0 - MaxPixelCount) .. MaxPixelCount) \cup HalfwayPixels

(***************************************************************************)
(* Program constants (game.constants.ts, millimetre revision).             *)
(***************************************************************************)
MAX_PIXELS_PER_BATCH == 10000
BASE_MAX_VELOCITY_MM_PER_SECOND == 2000
MAX_VELOCITY_MULTIPLIER == 1
BASE_GRAVITY_DECAY_MM_PER_TICK == 26
GRAVITY_STRENGTH_MULTIPLIER == 1
COUNTRY_IDLE_THRESHOLD_MS == 5000
VELOCITY_WINDOW_SECONDS == 1
MIN_TIME_DIFF_MS == 500
SCHEMA_MAX_DELTA == 10000

\* RETENTION_CONFIG.raw.duration
RAW_RETENTION_MS == 1 * 24 * 60 * 60 * 1000

\* a third of a day between two readings of the clock, and the milliseconds
\* that pass between the two stages of an aggregation run
DbClockSteps == {8 * 60 * 60 * 1000}
HotClockSteps == {600}
RefreshPixels == {1, 38}
ThresholdSteps == {COUNTRY_IDLE_THRESHOLD_MS}
AwaitSteps == {1}
DayClockSteps == {24 * 60 * 60 * 1000 + 1}
ElapsedMs == {0, 1}

\* clock steps that put a region at the idle threshold and one millisecond past it
IdleClockSteps == {COUNTRY_IDLE_THRESHOLD_MS, COUNTRY_IDLE_THRESHOLD_MS + 1}

Max(a, b) == IF a >= b THEN a ELSE b
Min(a, b) == IF a <= b THEN a ELSE b

\* Math.round: nearest integer, halves towards +infinity; num/den with den > 0
MathRound(num, den) == (2 * num + den) \div (2 * den)

\* a conversion of the magnitude that drops the sign
pixelsToMillimeters_Magnitude(pixels) == IF pixels < 0 THEN MathRound((0 - pixels) * 127, 480) ELSE MathRound(pixels * 127, 480)

\* a conversion that leaves the ratio out (one pixel, one unit)
pixelsToMillimeters_NoRatio(pixels) == pixels

\* Math.round(pixels * MM_PER_PIXEL), MM_PER_PIXEL = 25.4 / 96 = 127 / 480
pixelsToMillimeters(pixels) == MathRound(pixels * 127, 480)

\* a call pixelsToMillimeters(pixels) and what it returned
Conversion(pixels) == [pixels |-> pixels, millimeters |-> pixelsToMillimeters(pixels)]

MAX_MM_PER_BATCH == pixelsToMillimeters(MAX_PIXELS_PER_BATCH)
MAX_VELOCITY_MM_PER_SECOND == BASE_MAX_VELOCITY_MM_PER_SECOND * MAX_VELOCITY_MULTIPLIER
GRAVITY_DECAY_MM_PER_TICK == MathRound(BASE_GRAVITY_DECAY_MM_PER_TICK * GRAVITY_STRENGTH_MULTIPLIER, 1)

(***************************************************************************)
(* Redis: keys and commands.  A key is <<prefix, suffix>>; the suffix is   *)
(* the country code, or "" for the two global keys.                        *)
(***************************************************************************)
HeightKey(countryCode) == <<"global:height", countryCode>>
LastActivityKey(countryCode) == <<"global:last_activity", countryCode>>
GlobalHeightKey == <<"global:height", "">>
GlobalLastActivityKey == <<"global:last_activity", "">>

\* SET key value
RedisSet(store, key, value) == [k \in DOMAIN store \cup {key} |-> IF k = key THEN value ELSE store[k]]

\* INCRBY key amount: a missing key counts as 0 and is created
RedisIncrBy(store, key, amount) == RedisSet(store, key, (IF key \in DOMAIN store THEN store[key] ELSE 0) + amount)

\* DECRBY key amount: plain subtraction, Redis does not clamp
RedisDecrBy(store, key, amount) == RedisSet(store, key, (IF key \in DOMAIN store THEN store[key] ELSE 0) - amount)

\* SCAN with MATCH "<prefix>:*": the keys of that prefix with a suffix
RedisScan(store, prefix) == {k \in DOMAIN store : k[1] = prefix /\ k[2] # ""}

\* value of a key as the code defaults it: `value ? parseInt(value, 10) : dflt`
GetOr(store, key, dflt) == IF key \in DOMAIN store THEN store[key] ELSE dflt

(***************************************************************************)
(* RedisService (redis.service.ts): the hot-path commands.                 *)
(***************************************************************************)
\* an increment that writes the amount over the stored value
incrementCountryHeight_Overwrite(store, countryCode, amount) == RedisSet(store, HeightKey(countryCode), amount)

incrementCountryHeight(store, countryCode, amount) == RedisIncrBy(store, HeightKey(countryCode), amount)

updateLastActivity(store, dateNow) == RedisSet(store, GlobalLastActivityKey, dateNow)

updateCountryLastActivity(store, countryCode, dateNow) == RedisSet(store, LastActivityKey(countryCode), dateNow)

\* stored height of a region, 0 when the region has no key
HeightOf(store, countryCode) == GetOr(store, HeightKey(countryCode), 0)

\* getAllCountryHeights after its SCAN: MGET of the scanned keys, then only
\* the countries whose height parses to > 0 (a key gone meanwhile reads "0")
getAllCountryHeights(store, keys) ==
    LET codes == {k[2] : k \in keys}
        positive == {c \in codes : GetOr(store, HeightKey(c), 0) > 0}
    IN  [c \in positive |-> store[HeightKey(c)]]

\* getCountryLastActivity: `last ? parseInt(last, 10) : 0`
getCountryLastActivity(store, countryCode) == GetOr(store, LastActivityKey(countryCode), 0)

\* getAllCountryLastActivities after its SCAN: `values[i] ? parseInt(values[i], 10) : 0`
getAllCountryLastActivities(store, keys) == [c \in {k[2] : k \in keys} |-> GetOr(store, LastActivityKey(c), 0)]

\* a decrease without the Math.min
DecreaseAmount_NoClamp(amount, currentValue) == amount

\* decreaseCountryHeight after its GET: Math.min(amount, currentValue)
DecreaseAmount(amount, currentValue) == Min(amount, currentValue)

\* a decrease that also resets the last activity of the region
decreaseCountryHeight_ResetsActivity(store, countryCode, decreaseAmount) == RedisSet(RedisDecrBy(store, HeightKey(countryCode), decreaseAmount), LastActivityKey(countryCode), 0)

\* decreaseCountryHeight: the DECRBY it ends with
decreaseCountryHeight(store, countryCode, decreaseAmount) == RedisDecrBy(store, HeightKey(countryCode), decreaseAmount)

\* sum of the values of a record of heights
RECURSIVE SumHeights(_, _)
SumHeights(countryHeights, codes) ==
    IF codes = {} THEN 0
    ELSE LET c == CHOOSE x \in codes : TRUE
         IN  countryHeights[c] + SumHeights(countryHeights, codes \ {c})

\* a total that counts the leading region only
calculateGlobalHeightFromCountries_LeaderOnly(countryHeights) ==
    IF DOMAIN countryHeights = {} THEN 0
    ELSE LET top == CHOOSE c \in DOMAIN countryHeights : \A d \in DOMAIN countryHeights : countryHeights[d] <= countryHeights[c]
         IN  countryHeights[top]

\* calculateGlobalHeightFromCountries: total of getAllCountryHeights()
calculateGlobalHeightFromCountries(countryHeights) == SumHeights(countryHeights, DOMAIN countryHeights)

\* the total of the heights stored under global:height:*
StoredTotal(store) == SumHeights([c \in Countries |-> HeightOf(store, c)], Countries)

\* a publication that adds to the counter (INCRBY for SET)
setGlobalHeight_Increment(store, value) == RedisIncrBy(store, GlobalHeightKey, value)

\* setGlobalHeight: SET global:height value
setGlobalHeight(store, value) == RedisSet(store, GlobalHeightKey, value)

\* getGlobalHeight: `height || "0"`
getGlobalHeight(store) == GetOr(store, GlobalHeightKey, 0)

(***************************************************************************)
(* Gravity worker (gravity.worker.ts): the synchronous parts of a tick.    *)
(***************************************************************************)
\* a default that takes a region without a timestamp for active just now
LastActivityOf_ActiveNow(countryActivities, countryCode) == IF countryCode \in DOMAIN countryActivities THEN countryActivities[countryCode] ELSE MaxIdleClock

\* `countryActivities[countryCode] || 0`
LastActivityOf(countryActivities, countryCode) == IF countryCode \in DOMAIN countryActivities THEN countryActivities[countryCode] ELSE 0

\* an idle test with >= for >
IsIdle_AtThreshold(now, countryHeights, countryActivities, countryCode) ==
    /\ countryHeights[countryCode] > 0
    /\ now - LastActivityOf(countryActivities, countryCode) >= COUNTRY_IDLE_THRESHOLD_MS

\* heightValue > 0 and now - lastActivity > COUNTRY_IDLE_THRESHOLD_MS
IsIdle(now, countryHeights, countryActivities, countryCode) ==
    /\ countryHeights[countryCode] > 0
    /\ now - LastActivityOf(countryActivities, countryCode) > COUNTRY_IDLE_THRESHOLD_MS

\* the countries of a snapshot a tick will call decreaseCountryHeight for
IdleCountries(now, countryHeights, countryActivities) == {c \in DOMAIN countryHeights : IsIdle(now, countryHeights, countryActivities, c)}

\* Object.entries of the snapshot, sorted by height descending: the countries
\* that may come next among those left
NextInOrder(countryHeights, left) == {c \in left : \A d \in left : countryHeights[d] <= countryHeights[c]}

(***************************************************************************)
(* Socket handler and GameService.processScrollBatch.                      *)
(***************************************************************************)
\* a schema without its .max(10000)
ScrollBatchSchema_NoMax(delta) == delta > 0

\* z.object({ delta: z.number().positive().max(10000) })
ScrollBatchSchema(delta) == delta > 0 /\ delta <= SCHEMA_MAX_DELTA

\* velocity.toFixed(2), in hundredths of a millimetre per second
VelocityFixed2(deltaMillimeters, timeSinceLastBatch) == MathRound(deltaMillimeters * 1000 * 100, timeSinceLastBatch)

\* a velocity check with >= for >
ExceedsMaxVelocity_AtOrAbove(deltaMillimeters, timeSinceLastBatch) == (deltaMillimeters * 1000) \div timeSinceLastBatch >= MAX_VELOCITY_MM_PER_SECOND

\* (deltaMillimeters / timeSinceLastBatch) * 1000 > MAX_VELOCITY_MM_PER_SECOND,
\* the quotient compared exactly: its integer part is above the maximum, or
\* equal to it with a remainder
ExceedsMaxVelocity(deltaMillimeters, timeSinceLastBatch) ==
    LET quotient == (deltaMillimeters * 1000) \div timeSinceLastBatch
        remainder == (deltaMillimeters * 1000) % timeSinceLastBatch
    IN  quotient > MAX_VELOCITY_MM_PER_SECOND \/ (quotient = MAX_VELOCITY_MM_PER_SECOND /\ remainder > 0)

SuspiciousLog(userId, deltaMillimeters, timeSinceLastBatch) == [level |-> "warn", msg |-> "Suspicious activity", userId |-> userId, velocity |-> VelocityFixed2(deltaMillimeters, timeSinceLastBatch)]

InvalidLog(userId) == [level |-> "warn", msg |-> "Invalid scroll data", userId |-> userId, velocity |-> 0]

\* a processScrollBatch whose rejection branch warns and does not return
processScrollBatch_NoReturn(userId, countryCode, deltaPixels, timeSinceLastBatch) ==
    LET deltaMillimeters == pixelsToMillimeters(deltaPixels)
        reject == ExceedsMaxVelocity(deltaMillimeters, timeSinceLastBatch)
    IN  [deltaMillimeters |-> deltaMillimeters,
         warn |-> IF reject THEN {SuspiciousLog(userId, deltaMillimeters, timeSinceLastBatch)} ELSE {},
         pc |-> "incrementCountryHeight"]

\* The synchronous head of processScrollBatch: conversion and velocity check.
\* pc is where the call goes next: "return" (null) or the first Redis command.
processScrollBatch(userId, countryCode, deltaPixels, timeSinceLastBatch) ==
    LET deltaMillimeters == pixelsToMillimeters(deltaPixels)
        reject == ExceedsMaxVelocity(deltaMillimeters, timeSinceLastBatch)
    IN  [deltaMillimeters |-> deltaMillimeters,
         warn |-> IF reject THEN {SuspiciousLog(userId, deltaMillimeters, timeSinceLastBatch)} ELSE {},
         pc |-> IF reject THEN "return" ELSE "incrementCountryHeight"]

VARIABLES redis, clock, lastBatchTime, batch, log, nBatches, issued, job, nJobs, decayed, lastDec, rollup, previousHeight, currentVelocity, nRollups,
          rawTable, dailyTable, nextRawId, nextDailyId, flush, nFlushes, lastFlush, agg, nAggs,
          serverCurrentVelocity, stateCall, gameState, nStateCalls,
          converted, convertedBefore, history, nQueries, flushed, passedOn, workerError, published, shutdown, database, lastAdded, rankings

vars == <<redis, clock, lastBatchTime, batch, log, nBatches, issued, job, nJobs, decayed, lastDec, rollup, previousHeight, currentVelocity, nRollups,
          rawTable, dailyTable, nextRawId, nextDailyId, flush, nFlushes, lastFlush, agg, nAggs,
          serverCurrentVelocity, stateCall, gameState, nStateCalls,
          converted, convertedBefore, history, nQueries, flushed, passedOn, workerError, published, shutdown, database, lastAdded, rankings>>

\* passedOn[u]: how many batches of u the handler has handed to
\* processScrollBatch, and the `now` of the latest of them
\* lastAdded[c]: the time of the latest INCRBY of an accepted batch on the
\* height of c, 0 when there has been none
batchVars == <<lastBatchTime, batch, log, nBatches, issued, passedOn, lastAdded>>

jobVars == <<job, nJobs, decayed, lastDec>>

\* published: how many ticks of the global height worker have run to their end,
\* and the total of the latest of them
rollupVars == <<rollup, previousHeight, currentVelocity, nRollups, published>>

\* PostgreSQL tables and the persistence and aggregation workers
persistVars == <<rawTable, dailyTable, nextRawId, nextDailyId, flush, nFlushes, lastFlush, agg, nAggs>>

\* the server process: its copy of the module global-height.worker.ts and its
\* getGameState calls
serverVars == <<serverCurrentVelocity, stateCall, gameState, nStateCalls>>

\* the last two calls of pixelsToMillimeters: argument and result
conversionVars == <<converted, convertedBefore>>

\* the history service: the response of the latest getCountryHistory call, the
\* number of calls, and every row a raw flush has inserted so far
\* rankings: the response of the latest getCountryRankings call, with the
\* daily table as the call found it
historyVars == <<history, nQueries, flushed, rankings>>

\* no getCountryRankings call has returned
NoRankings == [valid |-> FALSE, items |-> <<>>, table |-> {}]

\* no getCountryHistory call has returned
NoHistory == [valid |-> FALSE, countryCode |-> "", range |-> "", granularity |-> "", since |-> 0, dataPoints |-> 0, data |-> <<>>]

\* the last line a background loop of the worker process wrote with
\* logger.error
errorVars == <<workerError>>

\* the worker process (worker.ts): "running" until SIGTERM or SIGINT calls
\* shutdown, "quit" while `await redisService.disconnect()` is pending, "exited"
\* after process.exit(0)
processVars == <<shutdown>>

\* PostgreSQL as the Prisma client of a process finds it: "available", or
\* "unavailable" (every query rejects)
storeVars == <<database>>

\* no background loop has logged an error
NoWorkerError == [loop |-> "", command |-> "", tick |-> 0, countryCode |-> "", skipped |-> {}]

\* a handler invocation that is not running
IdleBatch == [pc |-> "idle", userId |-> "", countryCode |-> "", deltaPixels |-> 0, now |-> 0, timeDiff |-> 0, deltaMillimeters |-> 0]

NoLog == [level |-> "", msg |-> "", userId |-> "", velocity |-> 0]

ZeroPerCountry == [c \in Countries |-> 0]

\* a timer callback or service call that is not running
IdleJob == [pc |-> "idle", kind |-> "", now |-> 0, keys |-> {}, countryHeights |-> <<>>, left |-> {}, countryCode |-> "", amount |-> 0, currentValue |-> 0, existed |-> FALSE]

\* a tick of the global height worker that is not running
IdleRollup == [pc |-> "idle", keys |-> {}, countryHeights |-> <<>>, globalHeightMm |-> 0, atStart |-> 0, repliesBefore |-> {}]

\* no decreaseCountryHeight call has returned yet
NoDecrease == [valid |-> FALSE, wrote |-> FALSE, countryCode |-> "", amount |-> 0, existed |-> FALSE, currentValue |-> 0, atWrite |-> 0, returned |-> 0, existsAfter |-> FALSE, after |-> 0]

\* a tick of the persistence worker that is not running
IdleFlush == [pc |-> "idle", keys |-> {}, countryHeights |-> <<>>, present |-> {}]

\* no tick of the persistence worker has ended yet; afterwards the regions that
\* had an entry when the last tick scanned and the regions it wrote a row for
NoFlush == [valid |-> FALSE, present |-> {}, written |-> {}]

\* a run of the aggregation job that is not running
IdleAgg == [pc |-> "idle", oneDayAgo |-> 0, rawRecords |-> {}]

\* a getGameState call that is not running
IdleStateCall == [pc |-> "idle", height |-> 0, velocity |-> 0, keys |-> {}, workerVelocity |-> 0]

\* no getGameState call has returned yet
NoGameState == [valid |-> FALSE, height |-> 0, velocity |-> 0, countryHeights |-> <<>>, workerVelocity |-> 0]

Init ==
    /\ redis = <<>>
    /\ clock = StartTime
    /\ lastBatchTime = [u \in Users |-> StartTime]
    /\ batch = [s \in Slots |-> IdleBatch]
    /\ log = NoLog
    /\ nBatches = 0
    /\ issued = ZeroPerCountry
    /\ job = [j \in JobIds |-> IdleJob]
    /\ nJobs = 0
    /\ decayed = ZeroPerCountry
    /\ lastDec = NoDecrease
    /\ rollup = [r \in RollupIds |-> IdleRollup]
    /\ previousHeight = 0
    /\ currentVelocity = 0
    /\ nRollups = 0
    /\ rawTable = {}
    /\ dailyTable = {}
    /\ nextRawId = 1
    /\ nextDailyId = 1
    /\ flush = IdleFlush
    /\ nFlushes = 0
    /\ lastFlush = NoFlush
    /\ agg = [a \in AggIds |-> IdleAgg]
    /\ nAggs = 0
    /\ serverCurrentVelocity = 0
    /\ stateCall = IdleStateCall
    /\ gameState = NoGameState
    /\ nStateCalls = 0
    /\ converted = Conversion(0)
    /\ convertedBefore = Conversion(0)
    /\ history = NoHistory
    /\ nQueries = 0
    /\ flushed = {}
    /\ passedOn = [u \in Users |-> [n |-> 0, at |-> 0]]
    /\ lastAdded = [c \in Countries |-> 0]
    /\ rankings = NoRankings
    /\ workerError = NoWorkerError
    /\ shutdown = "running"
    /\ database = "available"
    /\ published = [n |-> 0, total |-> 0]

\* socket.on("scroll_batch"): schema, rate limit, then processScrollBatch up to
\* its first await (or its return of null, after which the handler sets
\* lastBatchTime).  log is the last line the logger wrote.  An invocation takes
\* the free slot of least index.
ScrollBatch(s, userId, delta) ==
    /\ batch[s].pc = "idle"
    /\ \A t \in Slots : t < s => batch[t].pc # "idle"
    /\ nBatches < MaxBatches
    /\ nBatches' = nBatches + 1
    /\ LET now == clock
           timeDiff == now - lastBatchTime[userId]
           countryCode == CountryOf(userId)
           call == processScrollBatch(userId, countryCode, delta, timeDiff)
           called == [pc |-> call.pc, userId |-> userId, countryCode |-> countryCode, deltaPixels |-> delta, now |-> now, timeDiff |-> timeDiff, deltaMillimeters |-> call.deltaMillimeters]
       IN  IF ~ScrollBatchSchema(delta)
           THEN /\ log' = InvalidLog(userId)
                /\ UNCHANGED <<batch, lastBatchTime, issued, passedOn>>
           ELSE IF timeDiff < MIN_TIME_DIFF_MS
           THEN UNCHANGED <<batch, log, lastBatchTime, issued, passedOn>>
           ELSE /\ passedOn' = [passedOn EXCEPT ![userId] = [n |-> @.n + 1, at |-> now]]
                /\ log' = IF call.warn = {} THEN log ELSE CHOOSE l \in call.warn : TRUE
                /\ IF call.pc = "return"
                   THEN /\ lastBatchTime' = [lastBatchTime EXCEPT ![userId] = now]
                        /\ UNCHANGED <<batch, issued>>
                   ELSE /\ batch' = [batch EXCEPT ![s] = called]
                        /\ issued' = [issued EXCEPT ![countryCode] = @ + call.deltaMillimeters]
                        /\ UNCHANGED lastBatchTime
    /\ UNCHANGED <<redis, clock, lastAdded, jobVars, rollupVars, persistVars, serverVars, conversionVars, historyVars, errorVars, processVars, storeVars>>

\* a hot path that waits for PostgreSQL before its INCRBY
BatchIncrement_NeedsStore(s) ==
    /\ database = "available"
    /\ batch[s].pc = "incrementCountryHeight"
    /\ redis' = incrementCountryHeight(redis, batch[s].countryCode, batch[s].deltaMillimeters)
    /\ batch' = [batch EXCEPT ![s].pc = "updateLastActivity"]
    /\ lastAdded' = [lastAdded EXCEPT ![batch[s].countryCode] = clock]
    /\ UNCHANGED <<clock, lastBatchTime, log, nBatches, issued, passedOn, jobVars, rollupVars, persistVars, serverVars, conversionVars, historyVars, errorVars, processVars, storeVars>>

\* await redisService.incrementCountryHeight(countryCode, deltaMillimeters)
BatchIncrement(s) ==
    /\ batch[s].pc = "incrementCountryHeight"
    /\ redis' = incrementCountryHeight(redis, batch[s].countryCode, batch[s].deltaMillimeters)
    /\ batch' = [batch EXCEPT ![s].pc = "updateLastActivity"]
    /\ lastAdded' = [lastAdded EXCEPT ![batch[s].countryCode] = clock]
    /\ UNCHANGED <<clock, lastBatchTime, log, nBatches, issued, passedOn, jobVars, rollupVars, persistVars, serverVars, conversionVars, historyVars, errorVars, processVars, storeVars>>

\* await redisService.updateLastActivity()
BatchLastActivity(s) ==
    /\ batch[s].pc = "updateLastActivity"
    /\ redis' = updateLastActivity(redis, clock)
    /\ batch' = [batch EXCEPT ![s].pc = "updateCountryLastActivity"]
    /\ UNCHANGED <<clock, lastBatchTime, log, nBatches, issued, passedOn, lastAdded, jobVars, rollupVars, persistVars, serverVars, conversionVars, historyVars, errorVars, processVars, storeVars>>

\* await redisService.updateCountryLastActivity(countryCode)
BatchCountryLastActivity(s) ==
    /\ batch[s].pc = "updateCountryLastActivity"
    /\ redis' = updateCountryLastActivity(redis, batch[s].countryCode, clock)
    /\ batch' = [batch EXCEPT ![s].pc = "resolved"]
    /\ UNCHANGED <<clock, lastBatchTime, log, nBatches, issued, passedOn, lastAdded, jobVars, rollupVars, persistVars, serverVars, conversionVars, historyVars, errorVars, processVars, storeVars>>

\* processScrollBatch resolves { success: true }; the handler sets lastBatchTime = now
BatchResolve(s) ==
    /\ batch[s].pc = "resolved"
    /\ batch' = [batch EXCEPT ![s] = IdleBatch]
    /\ lastBatchTime' = [lastBatchTime EXCEPT ![batch[s].userId] = batch[s].now]
    /\ UNCHANGED <<redis, clock, log, nBatches, issued, passedOn, lastAdded, jobVars, rollupVars, persistVars, serverVars, conversionVars, historyVars, errorVars, processVars, storeVars>>

\* Date.now() moves on
AdvanceClock(d, limit) ==
    /\ clock + d <= limit
    /\ clock' = clock + d
    /\ UNCHANGED <<redis, batchVars, jobVars, rollupVars, persistVars, serverVars, conversionVars, historyVars, errorVars, processVars, storeVars>>

(***************************************************************************)
(* The decay side: a tick of the gravity worker, decreaseAllCountryHeights *)
(* and decreaseCountryHeight called on its own.  job[j] is one running     *)
(* invocation; two ticks overlap when the earlier one has not finished     *)
(* its awaits when setInterval fires again.  decayed[c] sums the amounts   *)
(* handed to DECRBY for c; lastDec describes the last decreaseCountryHeight*)
(* call that returned.                                                     *)
(***************************************************************************)
\* setInterval fires: now = Date.now(), then the SCAN of getAllCountryHeights,
\* which returns {} at once when it finds no key (and the tick returns)
GravityTick(j) ==
    /\ job[j].pc = "idle"
    /\ \A i \in JobIds : i < j => job[i].pc # "idle"
    /\ nJobs < MaxJobs
    /\ nJobs' = nJobs + 1
    /\ LET keys == RedisScan(redis, "global:height")
       IN  job' = [job EXCEPT ![j] = IF keys = {} THEN IdleJob
                                     ELSE [IdleJob EXCEPT !.pc = "mGet", !.kind = "gravity", !.now = clock, !.amount = GRAVITY_DECAY_MM_PER_TICK, !.keys = keys]]
    /\ UNCHANGED <<redis, clock, batchVars, decayed, lastDec, rollupVars, persistVars, serverVars, conversionVars, historyVars, errorVars, processVars, storeVars>>

\* decreaseAllCountryHeights(amount): the SCAN of getAllCountryHeights; with no
\* key there is nothing to loop over
DecreaseAll(j, amount) ==
    /\ job[j].pc = "idle"
    /\ \A i \in JobIds : i < j => job[i].pc # "idle"
    /\ nJobs < MaxJobs
    /\ nJobs' = nJobs + 1
    /\ LET keys == RedisScan(redis, "global:height")
       IN  job' = [job EXCEPT ![j] = IF keys = {} THEN IdleJob
                                     ELSE [IdleJob EXCEPT !.pc = "mGet", !.kind = "decreaseAll", !.amount = amount, !.keys = keys]]
    /\ UNCHANGED <<redis, clock, batchVars, decayed, lastDec, rollupVars, persistVars, serverVars, conversionVars, historyVars, errorVars, processVars, storeVars>>

\* getAllCountryHeights: the MGET.  A tick that finds no country returns;
\* decreaseAllCountryHeights goes on to its loop.
JobMGet(j) ==
    /\ job[j].pc = "mGet"
    /\ LET countryHeights == getAllCountryHeights(redis, job[j].keys)
       IN  job' = [job EXCEPT ![j] =
                IF job[j].kind = "gravity"
                THEN IF DOMAIN countryHeights = {} THEN IdleJob
                     ELSE [@ EXCEPT !.pc = "scanActivities", !.countryHeights = countryHeights, !.keys = {}]
                ELSE [@ EXCEPT !.pc = "loop", !.countryHeights = countryHeights, !.keys = {}, !.left = DOMAIN countryHeights]]
    /\ UNCHANGED <<redis, clock, batchVars, nJobs, decayed, lastDec, rollupVars, persistVars, serverVars, conversionVars, historyVars, errorVars, processVars, storeVars>>

\* getAllCountryLastActivities: the SCAN; with no key it returns {} at once
JobScanActivities(j) ==
    /\ job[j].pc = "scanActivities"
    /\ LET keys == RedisScan(redis, "global:last_activity")
       IN  job' = [job EXCEPT ![j] =
                IF keys = {}
                THEN [@ EXCEPT !.pc = "loop", !.left = IdleCountries(job[j].now, job[j].countryHeights, <<>>)]
                ELSE [@ EXCEPT !.pc = "mGetActivities", !.keys = keys]]
    /\ UNCHANGED <<redis, clock, batchVars, nJobs, decayed, lastDec, rollupVars, persistVars, serverVars, conversionVars, historyVars, errorVars, processVars, storeVars>>

\* getAllCountryLastActivities: the MGET; the tick then enters its loop
JobMGetActivities(j) ==
    /\ job[j].pc = "mGetActivities"
    /\ LET countryActivities == getAllCountryLastActivities(redis, job[j].keys)
       IN  job' = [job EXCEPT ![j] = [@ EXCEPT !.pc = "loop", !.keys = {}, !.left = IdleCountries(job[j].now, job[j].countryHeights, countryActivities)]]
    /\ UNCHANGED <<redis, clock, batchVars, nJobs, decayed, lastDec, rollupVars, persistVars, serverVars, conversionVars, historyVars, errorVars, processVars, storeVars>>

\* what a decreaseCountryHeight call that has returned did: the value its GET
\* read (and whether the key existed), whether it went on to DECRBY, the height
\* at the instant of the DECRBY (of the return, when it did not write), the
\* value it returned, and the key as the call left it in `after`
Returned(countryCode, amount, existed, currentValue, wrote, atWrite, returned, after) ==
    [valid |-> TRUE, wrote |-> wrote, countryCode |-> countryCode, amount |-> amount, existed |-> existed, currentValue |-> currentValue,
     atWrite |-> atWrite, returned |-> returned, existsAfter |-> HeightKey(countryCode) \in DOMAIN after, after |-> HeightOf(after, countryCode)]

\* decreaseCountryHeight: the GET.  `if (currentValue <= 0) return 0`; the
\* caller then goes on (a loop) or is done (a call on its own)
DecreaseGet(j, caller, countryCode) ==
    LET existed == HeightKey(countryCode) \in DOMAIN redis
        currentValue == GetOr(redis, HeightKey(countryCode), 0)
    IN  /\ redis' = redis
        /\ job' = [job EXCEPT ![j] =
                IF currentValue <= 0
                THEN IF caller.kind = "decrease" THEN IdleJob ELSE [caller EXCEPT !.pc = "loop", !.left = @ \ {countryCode}]
                ELSE [caller EXCEPT !.pc = "decrBy", !.left = @ \ {countryCode}, !.countryCode = countryCode, !.currentValue = currentValue, !.existed = existed]]
        /\ lastDec' = IF currentValue <= 0
                      THEN Returned(countryCode, caller.amount, existed, currentValue, FALSE, currentValue, 0, redis')
                      ELSE lastDec

\* the loop of a tick or of decreaseAllCountryHeights reaches its next call
JobNext(j) ==
    /\ job[j].pc = "loop"
    /\ job[j].left # {}
    /\ \E countryCode \in NextInOrder(job[j].countryHeights, job[j].left) : DecreaseGet(j, job[j], countryCode)
    /\ UNCHANGED <<clock, batchVars, nJobs, decayed, rollupVars, persistVars, serverVars, conversionVars, historyVars, errorVars, processVars, storeVars>>

\* the loop is over: the callback (or the call) ends
JobEnd(j) ==
    /\ job[j].pc = "loop"
    /\ job[j].left = {}
    /\ job' = [job EXCEPT ![j] = IdleJob]
    /\ UNCHANGED <<redis, clock, batchVars, nJobs, decayed, lastDec, rollupVars, persistVars, serverVars, conversionVars, historyVars, errorVars, processVars, storeVars>>

\* redisService.decreaseCountryHeight(countryCode, amount) called on its own
DecreaseCountryHeight(j, countryCode, amount) ==
    /\ job[j].pc = "idle"
    /\ \A i \in JobIds : i < j => job[i].pc # "idle"
    /\ nJobs < MaxJobs
    /\ nJobs' = nJobs + 1
    /\ DecreaseGet(j, [IdleJob EXCEPT !.kind = "decrease", !.amount = amount], countryCode)
    /\ UNCHANGED <<clock, batchVars, decayed, rollupVars, persistVars, serverVars, conversionVars, historyVars, errorVars, processVars, storeVars>>

\* decreaseCountryHeight: the DECRBY of Math.min(amount, currentValue); it
\* returns what DECRBY returns, the new value
DecreaseDecrBy(j) ==
    /\ job[j].pc = "decrBy"
    /\ LET countryCode == job[j].countryCode
           decreaseAmount == DecreaseAmount(job[j].amount, job[j].currentValue)
       IN  /\ redis' = decreaseCountryHeight(redis, countryCode, decreaseAmount)
           /\ decayed' = [decayed EXCEPT ![countryCode] = @ + decreaseAmount]
           /\ lastDec' = Returned(countryCode, job[j].amount, job[j].existed, job[j].currentValue, TRUE, HeightOf(redis, countryCode), redis'[HeightKey(countryCode)], redis')
           /\ job' = [job EXCEPT ![j] = IF @.kind = "decrease" THEN IdleJob ELSE [@ EXCEPT !.pc = "loop", !.countryCode = "", !.currentValue = 0, !.existed = FALSE]]
    /\ UNCHANGED <<clock, batchVars, nJobs, rollupVars, persistVars, serverVars, conversionVars, historyVars, errorVars, processVars, storeVars>>

(***************************************************************************)
(* Global height worker (global-height.worker.ts).  previousHeight and     *)
(* currentVelocity are the module variables of the worker.                 *)
(***************************************************************************)
\* setInterval fires: calculateGlobalHeightFromCountries starts with the SCAN of
\* getAllCountryHeights, which returns {} at once when it finds no key.
\* atStart keeps the total of the heights stored when the tick starts.
RollupTick(r) ==
    /\ rollup[r].pc = "idle"
    /\ \A i \in RollupIds : i < r => rollup[i].pc # "idle"
    /\ nRollups < MaxRollups
    /\ nRollups' = nRollups + 1
    /\ LET keys == RedisScan(redis, "global:height")
       IN  rollup' = [rollup EXCEPT ![r] = IF keys = {}
                                           THEN [IdleRollup EXCEPT !.pc = "setGlobalHeight", !.globalHeightMm = calculateGlobalHeightFromCountries(<<>>), !.atStart = StoredTotal(redis)]
                                           ELSE [IdleRollup EXCEPT !.pc = "mGet", !.keys = keys, !.atStart = StoredTotal(redis)]]
    /\ UNCHANGED <<redis, clock, batchVars, jobVars, persistVars, serverVars, previousHeight, currentVelocity, published, conversionVars, historyVars, errorVars, processVars, storeVars>>

\* getAllCountryHeights: the MGET; the total of what it returns
RollupMGet(r) ==
    /\ rollup[r].pc = "mGet"
    /\ LET countryHeights == getAllCountryHeights(redis, rollup[r].keys)
       IN  rollup' = [rollup EXCEPT ![r] = [@ EXCEPT !.pc = "setGlobalHeight", !.keys = {}, !.countryHeights = countryHeights, !.globalHeightMm = calculateGlobalHeightFromCountries(countryHeights)]]
    /\ UNCHANGED <<redis, clock, batchVars, jobVars, persistVars, serverVars, previousHeight, currentVelocity, nRollups, published, conversionVars, historyVars, errorVars, processVars, storeVars>>

\* currentVelocity = Number(currentHeight - prevHeight) / VELOCITY_WINDOW_SECONDS,
\* then await redisService.setGlobalHeight(globalHeightMm)
RollupSetGlobalHeight(r) ==
    /\ rollup[r].pc = "setGlobalHeight"
    /\ currentVelocity' = (rollup[r].globalHeightMm - previousHeight) \div VELOCITY_WINDOW_SECONDS
    /\ redis' = setGlobalHeight(redis, rollup[r].globalHeightMm)
    /\ rollup' = [rollup EXCEPT ![r] = [@ EXCEPT !.pc = "previousHeight", !.repliesBefore = {q \in RollupIds \ {r} : rollup[q].pc = "previousHeight"}]]
    /\ UNCHANGED <<clock, batchVars, jobVars, persistVars, serverVars, previousHeight, nRollups, published, conversionVars, historyVars, errorVars, processVars, storeVars>>

\* previousHeight = globalHeightMm; the tick ends.  The client has one
\* connection and answers its commands in the order they were sent, so the
\* ticks whose SET was sent earlier (repliesBefore) resume first
RollupEnd(r) ==
    /\ rollup[r].pc = "previousHeight"
    /\ rollup[r].repliesBefore = {}
    /\ previousHeight' = rollup[r].globalHeightMm
    /\ published' = [n |-> published.n + 1, total |-> rollup[r].globalHeightMm]
    /\ rollup' = [q \in RollupIds |-> IF q = r THEN IdleRollup ELSE [rollup[q] EXCEPT !.repliesBefore = @ \ {r}]]
    /\ UNCHANGED <<redis, clock, batchVars, jobVars, persistVars, serverVars, currentVelocity, nRollups, conversionVars, historyVars, errorVars, processVars, storeVars>>

(***************************************************************************)
(* Persistence worker (persistence.worker.ts): every SYNC_INTERVAL it       *)
(* appends the regional heights to country_history_raw.  rawTable is the   *)
(* table; recorded_at defaults to the time of the insert and id is serial. *)
(***************************************************************************)
\* the rows createMany inserts, one for each entry of countryData
RECURSIVE countryData(_, _, _, _)
countryData(countryHeights, codes, id, recordedAt) ==
    IF codes = {} THEN {}
    ELSE LET c == CHOOSE x \in codes : TRUE
         IN  {[id |-> id, countryCode |-> c, height |-> countryHeights[c], recordedAt |-> recordedAt]}
             \cup countryData(countryHeights, codes \ {c}, id + 1, recordedAt)

\* the regions behind a set of keys
CountriesOf(keys) == {k[2] : k \in keys}

\* setInterval fires: the SCAN of getAllCountryHeights; with no key it returns
\* {} and the tick ends without writing
FlushTick ==
    /\ flush.pc = "idle"
    /\ nFlushes < MaxFlushes
    /\ nFlushes' = nFlushes + 1
    /\ LET keys == RedisScan(redis, "global:height")
       IN  IF keys = {}
           THEN flush' = IdleFlush /\ lastFlush' = [valid |-> TRUE, present |-> {}, written |-> {}]
           ELSE flush' = [IdleFlush EXCEPT !.pc = "mGet", !.keys = keys, !.present = CountriesOf(keys)] /\ lastFlush' = lastFlush
    /\ UNCHANGED <<redis, clock, batchVars, jobVars, rollupVars, rawTable, dailyTable, nextRawId, nextDailyId, agg, nAggs, serverVars, conversionVars, historyVars, errorVars, processVars, storeVars>>

\* getAllCountryHeights: the MGET; `if (Object.keys(countryHeights).length > 0)`
FlushMGet ==
    /\ flush.pc = "mGet"
    /\ LET countryHeights == getAllCountryHeights(redis, flush.keys)
       IN  IF DOMAIN countryHeights = {}
           THEN flush' = IdleFlush /\ lastFlush' = [valid |-> TRUE, present |-> flush.present, written |-> {}]
           ELSE flush' = [flush EXCEPT !.pc = "createMany", !.keys = {}, !.countryHeights = countryHeights] /\ lastFlush' = lastFlush
    /\ UNCHANGED <<redis, clock, batchVars, jobVars, rollupVars, rawTable, dailyTable, nextRawId, nextDailyId, nFlushes, agg, nAggs, serverVars, conversionVars, historyVars, errorVars, processVars, storeVars>>

\* await prisma.transactionHistoryRaw.createMany({ data: countryData })
FlushCreateMany ==
    /\ flush.pc = "createMany"
    /\ LET codes == DOMAIN flush.countryHeights
       IN  /\ rawTable' = rawTable \cup countryData(flush.countryHeights, codes, nextRawId, clock)
           /\ nextRawId' = nextRawId + Cardinality(codes)
           /\ lastFlush' = [valid |-> TRUE, present |-> flush.present, written |-> codes]
           /\ flushed' = flushed \cup countryData(flush.countryHeights, codes, nextRawId, clock)
    /\ flush' = IdleFlush
    /\ UNCHANGED <<redis, clock, batchVars, jobVars, rollupVars, dailyTable, nextDailyId, nFlushes, agg, nAggs, serverVars, conversionVars, history, nQueries, rankings, errorVars, processVars, storeVars>>

(***************************************************************************)
(* Aggregation job (aggregation.worker.ts), run by cron in the worker      *)
(* process.  dailyTable is country_history_daily; the field samples of a   *)
(* daily row keeps the ids of the raw rows counted in its sampleCount.     *)
(* The interactive transaction takes effect at its commit, in one step.    *)
(***************************************************************************)
\* where: { recordedAt: { lt: cutoff } }
OlderThan(table, cutoff) == {r \in table : r.recordedAt < cutoff}

\* a deleteMany that deletes nothing
deleteMany_Nothing(table, cutoff) == table

\* deleteMany({ where: { recordedAt: { lt: cutoff } } })
deleteMany(table, cutoff) == table \ OlderThan(table, cutoff)

\* recordedAt.toISOString().split("T")[0]
DayOf(recordedAt) == recordedAt \div (24 * 60 * 60 * 1000)

\* the keys of dailyGroups, `${countryCode}:${day}`, and the group behind a key
dailyGroups(rawRecords) == {<<r.countryCode, DayOf(r.recordedAt)>> : r \in rawRecords}

GroupOf(rawRecords, dayKey) == {r \in rawRecords : r.countryCode = dayKey[1] /\ DayOf(r.recordedAt) = dayKey[2]}

RECURSIVE SumOfHeights(_)
SumOfHeights(group) ==
    IF group = {} THEN 0
    ELSE LET r == CHOOSE x \in group : TRUE
         IN  r.height + SumOfHeights(group \ {r})

\* a summary that takes the height of the first record for the average
DailyRow_FirstHeight(id, dayKey, group) ==
    LET first == CHOOSE t \in {r.recordedAt : r \in group} : \A r \in group : t <= r.recordedAt
    IN  [id |-> id,
         countryCode |-> dayKey[1],
         recordedAt |-> first,
         height |-> CHOOSE h \in {r.height : r \in group} : \E r \in group : r.recordedAt = first /\ r.height = h,
         minHeight |-> CHOOSE h \in {r.height : r \in group} : \A r \in group : h <= r.height,
         maxHeight |-> CHOOSE h \in {r.height : r \in group} : \A r \in group : h >= r.height,
         sampleCount |-> Cardinality(group),
         samples |-> {r.id : r \in group}]

\* the data of transactionHistoryDaily.create for one group (group[0] is the
\* earliest record: the records come ordered by recordedAt)
DailyRow(id, dayKey, group) ==
    [id |-> id,
     countryCode |-> dayKey[1],
     recordedAt |-> CHOOSE t \in {r.recordedAt : r \in group} : \A r \in group : t <= r.recordedAt,
     height |-> MathRound(SumOfHeights(group), Cardinality(group)),
     minHeight |-> CHOOSE h \in {r.height : r \in group} : \A r \in group : h <= r.height,
     maxHeight |-> CHOOSE h \in {r.height : r \in group} : \A r \in group : h >= r.height,
     sampleCount |-> Cardinality(group),
     samples |-> {r.id : r \in group}]

\* the rows the loop of the transaction creates, one for each group
RECURSIVE CreateDaily(_, _, _)
CreateDaily(rawRecords, dayKeys, id) ==
    IF dayKeys = {} THEN {}
    ELSE LET k == CHOOSE x \in dayKeys : TRUE
         IN  {DailyRow(id, k, GroupOf(rawRecords, k))} \cup CreateDaily(rawRecords, dayKeys \ {k}, id + 1)

\* a transaction that keeps the rows it created when it fails
RolledBack_KeepsCreated(table, created) == table \cup created

\* prisma.$transaction rejected: the rows created in it are rolled back
RolledBack(table, created) == table

\* cron fires: runAggregation calls aggregateRawToDaily, which reads the raw
\* rows older than oneDayAgo; with none it returns 0 and cleanupOldData follows
AggStart(a) ==
    /\ agg[a].pc = "idle"
    /\ \A i \in AggIds : i < a => agg[i].pc # "idle"
    /\ nAggs < MaxAggs
    /\ nAggs' = nAggs + 1
    /\ LET oneDayAgo == clock - RAW_RETENTION_MS
           rawRecords == OlderThan(rawTable, oneDayAgo)
       IN  agg' = [agg EXCEPT ![a] = [pc |-> IF rawRecords = {} THEN "cleanupOldData" ELSE "transaction", oneDayAgo |-> oneDayAgo, rawRecords |-> rawRecords]]
    /\ UNCHANGED <<redis, clock, batchVars, jobVars, rollupVars, rawTable, dailyTable, nextRawId, nextDailyId, flush, nFlushes, lastFlush, serverVars, conversionVars, historyVars, errorVars, processVars, storeVars>>

\* prisma.$transaction commits: one daily row for each group, and the raw rows
\* older than oneDayAgo deleted
AggTransaction(a) ==
    /\ agg[a].pc = "transaction"
    /\ LET dayKeys == dailyGroups(agg[a].rawRecords)
       IN  /\ dailyTable' = dailyTable \cup CreateDaily(agg[a].rawRecords, dayKeys, nextDailyId)
           /\ nextDailyId' = nextDailyId + Cardinality(dayKeys)
    /\ rawTable' = deleteMany(rawTable, agg[a].oneDayAgo)
    /\ agg' = [agg EXCEPT ![a].pc = "cleanupOldData"]
    /\ UNCHANGED <<redis, clock, batchVars, jobVars, rollupVars, nextRawId, flush, nFlushes, lastFlush, nAggs, serverVars, conversionVars, historyVars, errorVars, processVars, storeVars>>

\* prisma.$transaction rejects (a statement fails, the connection drops, the
\* transaction times out): aggregateRawToDaily throws, runAggregation logs and
\* rethrows, the cron callback logs; cleanupOldData is not reached.  Ids taken
\* from the sequence are not given back.
AggTransactionFails(a) ==
    /\ agg[a].pc = "transaction"
    /\ LET dayKeys == dailyGroups(agg[a].rawRecords)
       IN  /\ dailyTable' = RolledBack(dailyTable, CreateDaily(agg[a].rawRecords, dayKeys, nextDailyId))
           /\ nextDailyId' = nextDailyId + Cardinality(dayKeys)
    /\ agg' = [agg EXCEPT ![a] = IdleAgg]
    /\ UNCHANGED <<redis, clock, batchVars, jobVars, rollupVars, rawTable, nextRawId, flush, nFlushes, lastFlush, nAggs, serverVars, conversionVars, historyVars, errorVars, processVars, storeVars>>

\* a cleanupOldData that applies the retention of the raw table to the daily
\* table as well
AggCleanup_DailyEnabled(a, elapsed) ==
    /\ agg[a].pc = "cleanupOldData"
    /\ LET cutoff == (clock + elapsed) - RAW_RETENTION_MS
       IN  /\ rawTable' = deleteMany(rawTable, cutoff)
           /\ dailyTable' = deleteMany(dailyTable, cutoff)
    /\ agg' = [agg EXCEPT ![a] = IdleAgg]
    /\ UNCHANGED <<redis, clock, batchVars, jobVars, rollupVars, nextRawId, nextDailyId, flush, nFlushes, lastFlush, nAggs, serverVars, conversionVars, historyVars, errorVars, processVars, storeVars>>

\* cleanupOldData: cutoff = Date.now() - duration, where this Date.now() is
\* read `elapsed` ms after the clock of the last step (the awaits of
\* aggregateRawToDaily take time), then deleteMany of the raw rows older than
\* cutoff; the run ends
AggCleanup(a, elapsed) ==
    /\ agg[a].pc = "cleanupOldData"
    /\ LET cutoff == (clock + elapsed) - RAW_RETENTION_MS
       IN  rawTable' = deleteMany(rawTable, cutoff)
    /\ agg' = [agg EXCEPT ![a] = IdleAgg]
    /\ UNCHANGED <<redis, clock, batchVars, jobVars, rollupVars, dailyTable, nextRawId, nextDailyId, flush, nFlushes, lastFlush, nAggs, serverVars, conversionVars, historyVars, errorVars, processVars, storeVars>>

\* the deleteMany of cleanupOldData rejects: the run ends with the error logged
AggCleanupFails(a) ==
    /\ agg[a].pc = "cleanupOldData"
    /\ agg' = [agg EXCEPT ![a] = IdleAgg]
    /\ UNCHANGED <<redis, clock, batchVars, jobVars, rollupVars, rawTable, dailyTable, nextRawId, nextDailyId, flush, nFlushes, lastFlush, nAggs, serverVars, conversionVars, historyVars, errorVars, processVars, storeVars>>

(***************************************************************************)
(* Server process (server.ts): it connects to Redis and serves sockets; it *)
(* never calls startGlobalHeightWorker, so serverCurrentVelocity, its own  *)
(* copy of the module variable currentVelocity of global-height.worker.ts, *)
(* is written by no action.  stateCall is one call of getGameState and     *)
(* gameState the object it returned; the field workerVelocity keeps what   *)
(* getCurrentVelocity gave in the worker process at the moment of the read.*)
(***************************************************************************)
\* export const getCurrentVelocity = () => Math.round(currentVelocity)
getCurrentVelocity(velocity) == MathRound(velocity, 1)

\* getGameState is called: const height = await redisService.getGlobalHeight()
GetGameState ==
    /\ stateCall.pc = "idle"
    /\ nStateCalls < MaxStateCalls
    /\ nStateCalls' = nStateCalls + 1
    /\ stateCall' = [IdleStateCall EXCEPT !.pc = "getCurrentVelocity", !.height = getGlobalHeight(redis)]
    /\ UNCHANGED <<redis, clock, batchVars, jobVars, rollupVars, persistVars, serverCurrentVelocity, gameState, conversionVars, historyVars, errorVars, processVars, storeVars>>

\* const velocity = getCurrentVelocity(), then the SCAN of getAllCountryHeights
StateGetCurrentVelocity ==
    /\ stateCall.pc = "getCurrentVelocity"
    /\ stateCall' = [stateCall EXCEPT !.pc = "mGet",
                                      !.velocity = getCurrentVelocity(serverCurrentVelocity),
                                      !.workerVelocity = getCurrentVelocity(currentVelocity),
                                      !.keys = RedisScan(redis, "global:height")]
    /\ UNCHANGED <<redis, clock, batchVars, jobVars, rollupVars, persistVars, serverCurrentVelocity, gameState, nStateCalls, conversionVars, historyVars, errorVars, processVars, storeVars>>

\* the MGET of getAllCountryHeights (skipped with no key), then
\* return { height, velocity, countryHeights }
StateReturn ==
    /\ stateCall.pc = "mGet"
    /\ gameState' = [valid |-> TRUE,
                     height |-> stateCall.height,
                     velocity |-> stateCall.velocity,
                     countryHeights |-> IF stateCall.keys = {} THEN <<>> ELSE getAllCountryHeights(redis, stateCall.keys),
                     workerVelocity |-> stateCall.workerVelocity]
    /\ stateCall' = IdleStateCall
    /\ UNCHANGED <<redis, clock, batchVars, jobVars, rollupVars, persistVars, serverCurrentVelocity, nStateCalls, conversionVars, historyVars, errorVars, processVars, storeVars>>

(***************************************************************************)
(* The conversion called on its own (game.constants.ts): converted is the  *)
(* latest call and convertedBefore the one before it.                      *)
(***************************************************************************)
Convert(pixels) ==
    /\ converted' = Conversion(pixels)
    /\ convertedBefore' = converted
    /\ UNCHANGED <<redis, clock, batchVars, jobVars, rollupVars, persistVars, serverVars, historyVars, errorVars, processVars, storeVars>>

(***************************************************************************)
(* History service (country-history.service.ts, time.helpers.ts) for the   *)
(* ranges served from country_history_raw.  A decimal string is the        *)
(* sequence of its characters: "-" and the digits 0..9.                    *)
(***************************************************************************)
\* getTimeAgo(range) for "1h", "24h" and "7d": new Date(now - ...)
getTimeAgo(range, now) ==
    CASE range = "1h" -> now - 60 * 60 * 1000
      [] range = "24h" -> now - 24 * 60 * 60 * 1000
      [] range = "7d" -> now - 7 * 24 * 60 * 60 * 1000

\* the characters of the digits 0..9
DigitChars == <<"0", "1", "2", "3", "4", "5", "6", "7", "8", "9">>

\* the digits of a natural number, most significant first
RECURSIVE DigitsOf(_)
DigitsOf(n) == IF n < 10 THEN <<DigitChars[n + 1]>> ELSE Append(DigitsOf(n \div 10), DigitChars[(n % 10) + 1])

\* bigint.toString()
toString(n) == IF n < 0 THEN <<"-">> \o DigitsOf(0 - n) ELSE DigitsOf(n)

\* the value of a sequence of digits
RECURSIVE ValueOf(_)
ValueOf(digits) ==
    IF digits = <<>> THEN 0
    ELSE 10 * ValueOf(SubSeq(digits, 1, Len(digits) - 1)) + (CHOOSE d \in 0 .. 9 : DigitChars[d + 1] = digits[Len(digits)])

\* BigInt(string) for a decimal string
BigInt(str) == IF str # <<>> /\ str[1] = "-" THEN 0 - ValueOf(Tail(str)) ELSE ValueOf(str)

\* where: { countryCode, recordedAt: { gte: since } }
NotBefore(table, countryCode, since) == {r \in table : r.countryCode = countryCode /\ r.recordedAt >= since}

\* orderBy: { recordedAt: "asc" } (records of one time in an order the
\* database picks), then records.map(r => ({ time, height: r.height.toString() }))
RECURSIVE dataPointsOf(_)
dataPointsOf(records) ==
    IF records = {} THEN <<>>
    ELSE LET r == CHOOSE x \in records : \A y \in records : x.recordedAt <= y.recordedAt
         IN  <<[time |-> r.recordedAt, height |-> toString(r.height)]>> \o dataPointsOf(records \ {r})

\* getCountryRawHistory: since = getTimeAgo(range), findMany, map
getCountryRawHistory(table, countryCode, range, now) == dataPointsOf(NotBefore(table, countryCode, getTimeAgo(range, now)))

\* getCountryHistory(countryCode, range) for a range served from the raw table
GetCountryHistory(countryCode, range) ==
    /\ nQueries < MaxQueries
    /\ nQueries' = nQueries + 1
    /\ LET data == getCountryRawHistory(rawTable, countryCode, range, clock)
       IN  history' = [valid |-> TRUE, countryCode |-> countryCode, range |-> range, granularity |-> "raw",
                       since |-> getTimeAgo(range, clock), dataPoints |-> Len(data), data |-> data]
    /\ UNCHANGED <<redis, clock, batchVars, jobVars, rollupVars, persistVars, serverVars, conversionVars, flushed, rankings, errorVars, processVars, storeVars>>

\* findMany({ where: { recordedAt }, orderBy: { height: "desc" } }): the rows
\* with that timestamp in every order the database may return them in (rows
\* of equal height come in any order)
RECURSIVE OrderedByHeight(_)
OrderedByHeight(records) ==
    IF records = {} THEN {<<>>}
    ELSE UNION {{<<r>> \o rest : rest \in OrderedByHeight(records \ {r})} : r \in {x \in records : \A y \in records : y.height <= x.height}}

\* records.map((record, index) => ({ countryCode, height: height.toString(), rank: index + 1 }))
RankingItems(records) == [index \in 1 .. Len(records) |-> [countryCode |-> records[index].countryCode, height |-> toString(records[index].height), rank |-> index]]

\* getCountryRankings: the latest recordedAt of the daily table, then the rows
\* that carry exactly that recordedAt, by height descending; [] with no row
getCountryRankings(table) ==
    IF table = {} THEN {<<>>}
    ELSE LET latestRecord == CHOOSE d \in table : \A e \in table : e.recordedAt <= d.recordedAt
         IN  {RankingItems(records) : records \in OrderedByHeight({d \in table : d.recordedAt = latestRecord.recordedAt})}

\* GET /rankings: one call of getCountryRankings
GetCountryRankings ==
    /\ nQueries < MaxQueries
    /\ nQueries' = nQueries + 1
    /\ \E items \in getCountryRankings(dailyTable) : rankings' = [valid |-> TRUE, items |-> items, table |-> dailyTable]
    /\ UNCHANGED <<redis, clock, batchVars, jobVars, rollupVars, persistVars, serverVars, conversionVars, history, flushed, errorVars, processVars, storeVars>>

(***************************************************************************)
(* Rejected awaits in the background loops.  Each setInterval callback     *)
(* wraps its body in one try/catch: the rejection leaves the body at the   *)
(* await, the catch logs, and the callback ends.  workerError keeps the    *)
(* loop, the rejected command, the number of the tick, the region whose   *)
(* call was rejected (if                                                   *)
(* the tick was in its loop) and the regions the tick had still to call    *)
(* decreaseCountryHeight for.                                              *)
(***************************************************************************)
\* getAllCountryHeights or getAllCountryLastActivities rejects in a tick
GravityReadFails(j) ==
    /\ job[j].kind = "gravity"
    /\ job[j].pc \in {"mGet", "scanActivities", "mGetActivities"}
    /\ workerError' = [loop |-> "gravity", command |-> job[j].pc, tick |-> nJobs, countryCode |-> "", skipped |-> {}]
    /\ job' = [job EXCEPT ![j] = IdleJob]
    /\ UNCHANGED <<redis, clock, batchVars, nJobs, decayed, lastDec, rollupVars, persistVars, serverVars, conversionVars, historyVars, processVars, storeVars>>

\* the GET of decreaseCountryHeight rejects for the next region of the loop
GravityGetFails(j) ==
    /\ job[j].kind = "gravity"
    /\ job[j].pc = "loop"
    /\ job[j].left # {}
    /\ \E countryCode \in NextInOrder(job[j].countryHeights, job[j].left) :
          /\ workerError' = [loop |-> "gravity", command |-> "get", tick |-> nJobs, countryCode |-> countryCode, skipped |-> job[j].left \ {countryCode}]
          /\ job' = [job EXCEPT ![j] = IdleJob]
    /\ UNCHANGED <<redis, clock, batchVars, nJobs, decayed, lastDec, rollupVars, persistVars, serverVars, conversionVars, historyVars, processVars, storeVars>>

\* the DECRBY of decreaseCountryHeight rejects
GravityDecrByFails(j) ==
    /\ job[j].kind = "gravity"
    /\ job[j].pc = "decrBy"
    /\ workerError' = [loop |-> "gravity", command |-> "decrBy", tick |-> nJobs, countryCode |-> job[j].countryCode, skipped |-> job[j].left]
    /\ job' = [job EXCEPT ![j] = IdleJob]
    /\ UNCHANGED <<redis, clock, batchVars, nJobs, decayed, lastDec, rollupVars, persistVars, serverVars, conversionVars, historyVars, processVars, storeVars>>

\* calculateGlobalHeightFromCountries rejects in a tick of the global height
\* worker: nothing has been assigned yet
RollupReadFails(r) ==
    /\ rollup[r].pc = "mGet"
    /\ workerError' = [loop |-> "globalHeight", command |-> rollup[r].pc, tick |-> nRollups, countryCode |-> "", skipped |-> {}]
    /\ rollup' = [rollup EXCEPT ![r] = IdleRollup]
    /\ UNCHANGED <<redis, clock, batchVars, jobVars, previousHeight, currentVelocity, nRollups, published, persistVars, serverVars, conversionVars, historyVars, processVars, storeVars>>

\* setGlobalHeight rejects: currentVelocity has been assigned, previousHeight
\* has not
RollupSetFails(r) ==
    /\ rollup[r].pc = "setGlobalHeight"
    /\ currentVelocity' = (rollup[r].globalHeightMm - previousHeight) \div VELOCITY_WINDOW_SECONDS
    /\ workerError' = [loop |-> "globalHeight", command |-> rollup[r].pc, tick |-> nRollups, countryCode |-> "", skipped |-> {}]
    /\ rollup' = [rollup EXCEPT ![r] = IdleRollup]
    /\ UNCHANGED <<redis, clock, batchVars, jobVars, previousHeight, nRollups, published, persistVars, serverVars, conversionVars, historyVars, processVars, storeVars>>

\* a persistence worker whose interval is cleared by a rejection
FlushFails_StopsLoop ==
    /\ flush.pc \in {"mGet", "createMany"}
    /\ workerError' = [loop |-> "persistence", command |-> flush.pc, tick |-> nFlushes, countryCode |-> "", skipped |-> {}]
    /\ flush' = [IdleFlush EXCEPT !.pc = "stopped"]
    /\ UNCHANGED <<redis, clock, batchVars, jobVars, rollupVars, rawTable, dailyTable, nextRawId, nextDailyId, nFlushes, lastFlush, agg, nAggs, serverVars, conversionVars, historyVars, processVars, storeVars>>

\* getAllCountryHeights or createMany rejects in a tick of the persistence
\* worker: countryData is dropped with the callback
FlushFails ==
    /\ flush.pc \in {"mGet", "createMany"}
    /\ workerError' = [loop |-> "persistence", command |-> flush.pc, tick |-> nFlushes, countryCode |-> "", skipped |-> {}]
    /\ flush' = IdleFlush
    /\ UNCHANGED <<redis, clock, batchVars, jobVars, rollupVars, rawTable, dailyTable, nextRawId, nextDailyId, nFlushes, lastFlush, agg, nAggs, serverVars, conversionVars, historyVars, processVars, storeVars>>

\* PostgreSQL goes away, and comes back
DatabaseFails ==
    /\ database = "available"
    /\ database' = "unavailable"
    /\ UNCHANGED <<redis, clock, batchVars, jobVars, rollupVars, persistVars, serverVars, conversionVars, historyVars, errorVars, processVars>>

DatabaseRecovers ==
    /\ database = "unavailable"
    /\ database' = "available"
    /\ UNCHANGED <<redis, clock, batchVars, jobVars, rollupVars, persistVars, serverVars, conversionVars, historyVars, errorVars, processVars>>

\* cron fires and the findMany of aggregateRawToDaily rejects: runAggregation
\* logs and rethrows, the cron callback logs, nothing has been written
AggFindManyFails(a) ==
    /\ agg[a].pc = "idle"
    /\ \A i \in AggIds : i < a => agg[i].pc # "idle"
    /\ nAggs < MaxAggs
    /\ nAggs' = nAggs + 1
    /\ UNCHANGED <<redis, clock, batchVars, jobVars, rollupVars, rawTable, dailyTable, nextRawId, nextDailyId, flush, nFlushes, lastFlush, agg, serverVars, conversionVars, historyVars, errorVars, processVars, storeVars>>

\* SIGTERM or SIGINT: shutdown logs and calls redisService.disconnect(), which
\* sends QUIT and waits for the reply; no interval or cron task is cleared
Shutdown ==
    /\ shutdown = "running"
    /\ shutdown' = "quit"
    /\ UNCHANGED <<redis, clock, batchVars, jobVars, rollupVars, persistVars, serverVars, conversionVars, historyVars, errorVars, storeVars>>

\* the QUIT is answered: process.exit(0) ends the process with whatever its
\* callbacks were waiting for
ShutdownExit ==
    /\ shutdown = "quit"
    /\ shutdown' = "exited"
    /\ UNCHANGED <<redis, clock, batchVars, jobVars, rollupVars, persistVars, serverVars, conversionVars, historyVars, errorVars, storeVars>>

NextValidator ==
    \/ \E s \in OneSlot, u \in BoundaryUsers, delta \in BoundaryPixels : ScrollBatch(s, u, delta)
    \/ \E s \in OneSlot : BatchIncrement(s)
    \/ \E s \in OneSlot : BatchLastActivity(s)
    \/ \E s \in OneSlot : BatchCountryLastActivity(s)
    \/ \E s \in OneSlot : BatchResolve(s)
    \/ \E d \in BoundaryClockSteps : AdvanceClock(d, StartTime + MaxFineClock)

SpecValidator == Init /\ [][NextValidator]_vars

\* the production worker: contributions and gravity ticks that may overlap
NextDecay ==
    \/ \E s \in Slots, u \in BoundaryUsers, delta \in PixelInputs : ScrollBatch(s, u, delta)
    \/ \E s \in Slots : BatchIncrement(s)
    \/ \E s \in Slots : BatchLastActivity(s)
    \/ \E s \in Slots : BatchCountryLastActivity(s)
    \/ \E s \in Slots : BatchResolve(s)
    \/ \E d \in ClockSteps : AdvanceClock(d, MaxClock)
    \/ \E j \in JobIds : GravityTick(j)
    \/ \E j \in JobIds : JobMGet(j)
    \/ \E j \in JobIds : JobScanActivities(j)
    \/ \E j \in JobIds : JobMGetActivities(j)
    \/ \E j \in JobIds : JobNext(j)
    \/ \E j \in JobIds : JobEnd(j)
    \/ \E j \in JobIds : DecreaseDecrBy(j)

SpecDecay == Init /\ [][NextDecay]_vars

\* RedisService under concurrent callers: contributions, decreaseAllCountryHeights
\* and decreaseCountryHeight
Next ==
    \/ \E s \in Slots, u \in BoundaryUsers, delta \in PixelInputs : ScrollBatch(s, u, delta)
    \/ \E s \in Slots : BatchIncrement(s)
    \/ \E s \in Slots : BatchLastActivity(s)
    \/ \E s \in Slots : BatchCountryLastActivity(s)
    \/ \E s \in Slots : BatchResolve(s)
    \/ \E d \in ClockSteps : AdvanceClock(d, MaxClock)
    \/ \E j \in JobIds, amount \in DecreaseAmounts : DecreaseAll(j, amount)
    \/ \E j \in JobIds, c \in Countries, amount \in DecreaseAmounts : DecreaseCountryHeight(j, c, amount)
    \/ \E j \in JobIds : JobMGet(j)
    \/ \E j \in JobIds : JobNext(j)
    \/ \E j \in JobIds : JobEnd(j)
    \/ \E j \in JobIds : DecreaseDecrBy(j)

Spec == Init /\ [][Next]_vars

\* the worker process: contributions, gravity ticks and rollup ticks
NextRollup ==
    \/ \E s \in OneSlot, u \in BoundaryUsers, delta \in PixelInputs : ScrollBatch(s, u, delta)
    \/ \E s \in OneSlot : BatchIncrement(s)
    \/ \E s \in OneSlot : BatchLastActivity(s)
    \/ \E s \in OneSlot : BatchCountryLastActivity(s)
    \/ \E s \in OneSlot : BatchResolve(s)
    \/ \E d \in ClockSteps : AdvanceClock(d, MaxClock)
    \/ \E j \in JobIds : GravityTick(j)
    \/ \E j \in JobIds : JobMGet(j)
    \/ \E j \in JobIds : JobScanActivities(j)
    \/ \E j \in JobIds : JobMGetActivities(j)
    \/ \E j \in JobIds : JobNext(j)
    \/ \E j \in JobIds : JobEnd(j)
    \/ \E j \in JobIds : DecreaseDecrBy(j)
    \/ \E r \in OneRollup : RollupTick(r)
    \/ \E r \in OneRollup : RollupMGet(r)
    \/ \E r \in OneRollup : RollupSetGlobalHeight(r)
    \/ \E r \in OneRollup : RollupEnd(r)

SpecRollup == Init /\ [][NextRollup]_vars

\* contributions and gravity ticks around the idle threshold
NextGravity ==
    \/ \E s \in OneSlot, u \in BoundaryUsers, delta \in PixelInputs : ScrollBatch(s, u, delta)
    \/ \E s \in OneSlot : BatchIncrement(s)
    \/ \E s \in OneSlot : BatchLastActivity(s)
    \/ \E s \in OneSlot : BatchCountryLastActivity(s)
    \/ \E s \in OneSlot : BatchResolve(s)
    \/ \E d \in IdleClockSteps : AdvanceClock(d, MaxIdleClock)
    \/ \E j \in JobIds : GravityTick(j)
    \/ \E j \in JobIds : JobMGet(j)
    \/ \E j \in JobIds : JobScanActivities(j)
    \/ \E j \in JobIds : JobMGetActivities(j)
    \/ \E j \in JobIds : JobNext(j)
    \/ \E j \in JobIds : JobEnd(j)
    \/ \E j \in JobIds : DecreaseDecrBy(j)

SpecGravity == Init /\ [][NextGravity]_vars

\* a region that receives its contributions and is then left to decay: no
\* contribution arrives once a gravity tick has started
NextIdleDecay ==
    \/ nJobs = 0 /\ \E s \in Slots, u \in SameRegionUsers, delta \in DecayPixels : ScrollBatch(s, u, delta)
    \/ \E s \in Slots : BatchIncrement(s)
    \/ \E s \in Slots : BatchLastActivity(s)
    \/ \E s \in Slots : BatchCountryLastActivity(s)
    \/ \E s \in Slots : BatchResolve(s)
    \/ \E d \in IdleClockSteps : AdvanceClock(d, MaxIdleClock)
    \/ (\A s \in Slots : batch[s].pc = "idle") /\ \E j \in JobIds : GravityTick(j)
    \/ \E j \in JobIds : JobMGet(j)
    \/ \E j \in JobIds : JobScanActivities(j)
    \/ \E j \in JobIds : JobMGetActivities(j)
    \/ \E j \in JobIds : JobNext(j)
    \/ \E j \in JobIds : JobEnd(j)
    \/ \E j \in JobIds : DecreaseDecrBy(j)

SpecIdleDecay == Init /\ [][NextIdleDecay]_vars

\* contributions, gravity ticks and ticks of the persistence worker
NextFlush ==
    \/ \E s \in OneSlot, u \in BoundaryUsers, delta \in PixelInputs : ScrollBatch(s, u, delta)
    \/ \E s \in OneSlot : BatchIncrement(s)
    \/ \E s \in OneSlot : BatchLastActivity(s)
    \/ \E s \in OneSlot : BatchCountryLastActivity(s)
    \/ \E s \in OneSlot : BatchResolve(s)
    \/ \E d \in IdleClockSteps : AdvanceClock(d, MaxIdleClock)
    \/ \E j \in OneJob : GravityTick(j)
    \/ \E j \in OneJob : JobMGet(j)
    \/ \E j \in OneJob : JobScanActivities(j)
    \/ \E j \in OneJob : JobMGetActivities(j)
    \/ \E j \in OneJob : JobNext(j)
    \/ \E j \in OneJob : JobEnd(j)
    \/ \E j \in OneJob : DecreaseDecrBy(j)
    \/ FlushTick
    \/ FlushMGet
    \/ FlushCreateMany

SpecFlush == Init /\ [][NextFlush]_vars

\* the durable store: contributions, then ticks of the persistence worker and
\* runs of the aggregation job that may overlap and may fail; a third of a day
\* passes between handler invocations and between ticks, not inside them
NextCompaction ==
    \/ nFlushes = 0 /\ \E s \in OneSlot, u \in OneUser, delta \in PixelInputs : ScrollBatch(s, u, delta)
    \/ \E s \in OneSlot : BatchIncrement(s)
    \/ \E s \in OneSlot : BatchLastActivity(s)
    \/ \E s \in OneSlot : BatchCountryLastActivity(s)
    \/ \E s \in OneSlot : BatchResolve(s)
    \/ (flush.pc = "idle" /\ \A s \in OneSlot : batch[s].pc = "idle") /\ \E d \in DbClockSteps : AdvanceClock(d, MaxDbClock)
    \/ FlushTick
    \/ FlushMGet
    \/ FlushCreateMany
    \/ \E a \in AggIds : AggStart(a)
    \/ \E a \in AggIds : AggTransaction(a)
    \/ \E a \in AggIds : AggTransactionFails(a)
    \/ \E a \in AggIds, elapsed \in ElapsedMs : AggCleanup(a, elapsed)
    \/ \E a \in AggIds : AggCleanupFails(a)

SpecCompaction == Init /\ [][NextCompaction]_vars

\* the deployment of two processes: the server takes the contributions and
\* answers getGameState, the worker runs the rollup ticks
NextDeployment ==
    \/ \E s \in OneSlot, u \in OneUser, delta \in PixelInputs : ScrollBatch(s, u, delta)
    \/ \E s \in OneSlot : BatchIncrement(s)
    \/ \E s \in OneSlot : BatchLastActivity(s)
    \/ \E s \in OneSlot : BatchCountryLastActivity(s)
    \/ \E s \in OneSlot : BatchResolve(s)
    \/ \E d \in ClockSteps : AdvanceClock(d, MaxClock)
    \/ \E r \in RollupIds : RollupTick(r)
    \/ \E r \in RollupIds : RollupMGet(r)
    \/ \E r \in RollupIds : RollupSetGlobalHeight(r)
    \/ \E r \in RollupIds : RollupEnd(r)
    \/ GetGameState
    \/ StateGetCurrentVelocity
    \/ StateReturn

SpecDeployment == Init /\ [][NextDeployment]_vars

\* pixelsToMillimeters over pixel counts of both signs
NextConversion == \E pixels \in ConversionPixels : Convert(pixels)

SpecConversion == Init /\ [][NextConversion]_vars

\* raw flushes, aggregation runs one at a time, and history queries
NextHistory ==
    \/ nFlushes = 0 /\ \E s \in OneSlot, u \in OneUser, delta \in PixelInputs : ScrollBatch(s, u, delta)
    \/ \E s \in OneSlot : BatchIncrement(s)
    \/ \E s \in OneSlot : BatchLastActivity(s)
    \/ \E s \in OneSlot : BatchCountryLastActivity(s)
    \/ \E s \in OneSlot : BatchResolve(s)
    \/ (flush.pc = "idle" /\ \A s \in OneSlot : batch[s].pc = "idle") /\ \E d \in DbClockSteps : AdvanceClock(d, MaxDbClock)
    \/ FlushTick
    \/ FlushMGet
    \/ FlushCreateMany
    \/ \E a \in OneAgg : AggStart(a)
    \/ \E a \in OneAgg : AggTransaction(a)
    \/ \E a \in OneAgg : AggTransactionFails(a)
    \/ \E a \in OneAgg, elapsed \in ElapsedMs : AggCleanup(a, elapsed)
    \/ \E a \in OneAgg : AggCleanupFails(a)
    \/ \E c \in Countries, range \in RawRanges : GetCountryHistory(c, range)

SpecHistory == Init /\ [][NextHistory]_vars

\* gravity ticks, one at a time, whose store calls may be rejected
NextGravityFaults ==
    \/ nJobs = 0 /\ \E s \in OneSlot, u \in BoundaryUsers, delta \in PixelInputs : ScrollBatch(s, u, delta)
    \/ \E s \in OneSlot : BatchIncrement(s)
    \/ \E s \in OneSlot : BatchLastActivity(s)
    \/ \E s \in OneSlot : BatchCountryLastActivity(s)
    \/ \E s \in OneSlot : BatchResolve(s)
    \/ \E d \in IdleClockSteps : AdvanceClock(d, MaxIdleClock)
    \/ \E j \in OneJob : GravityTick(j)
    \/ \E j \in OneJob : JobMGet(j)
    \/ \E j \in OneJob : JobScanActivities(j)
    \/ \E j \in OneJob : JobMGetActivities(j)
    \/ \E j \in OneJob : JobNext(j)
    \/ \E j \in OneJob : JobEnd(j)
    \/ \E j \in OneJob : DecreaseDecrBy(j)
    \/ \E j \in OneJob : GravityReadFails(j)
    \/ \E j \in OneJob : GravityGetFails(j)
    \/ \E j \in OneJob : GravityDecrByFails(j)

SpecGravityFaults == Init /\ [][NextGravityFaults]_vars

\* no callback of a background loop is between two of its awaits
LoopsIdle == (\A j \in OneJob : job[j].pc = "idle") /\ (\A r \in OneRollup : rollup[r].pc = "idle") /\ flush.pc = "idle"

\* the timers fire in rounds: the gravity tick, then the global height tick,
\* then the persistence tick
GravityTurn == LoopsIdle /\ nJobs = nRollups /\ nJobs = nFlushes

RollupTurn == LoopsIdle /\ nRollups < nJobs

FlushTurn == LoopsIdle /\ nFlushes < nRollups

\* the three setInterval loops of the worker process with store calls that may
\* be rejected; the contributions come first, and a tick starts when no other
\* callback is between two awaits
NextLoops ==
    \/ (nJobs = 0 /\ nRollups = 0 /\ nFlushes = 0) /\ \E s \in OneSlot, u \in OneUser, delta \in PixelInputs : ScrollBatch(s, u, delta)
    \/ \E s \in OneSlot : BatchIncrement(s)
    \/ \E s \in OneSlot : BatchLastActivity(s)
    \/ \E s \in OneSlot : BatchCountryLastActivity(s)
    \/ \E s \in OneSlot : BatchResolve(s)
    \/ (nJobs = 0 /\ nRollups = 0 /\ nFlushes = 0) /\ \E d \in IdleClockSteps : AdvanceClock(d, MaxIdleClock)
    \/ GravityTurn /\ \E j \in OneJob : GravityTick(j)
    \/ \E j \in OneJob : JobMGet(j)
    \/ \E j \in OneJob : JobScanActivities(j)
    \/ \E j \in OneJob : JobMGetActivities(j)
    \/ \E j \in OneJob : JobNext(j)
    \/ \E j \in OneJob : JobEnd(j)
    \/ \E j \in OneJob : DecreaseDecrBy(j)
    \/ \E j \in OneJob : GravityReadFails(j)
    \/ \E j \in OneJob : GravityGetFails(j)
    \/ \E j \in OneJob : GravityDecrByFails(j)
    \/ RollupTurn /\ \E r \in OneRollup : RollupTick(r)
    \/ \E r \in OneRollup : RollupMGet(r)
    \/ \E r \in OneRollup : RollupSetGlobalHeight(r)
    \/ \E r \in OneRollup : RollupEnd(r)
    \/ \E r \in OneRollup : RollupReadFails(r)
    \/ \E r \in OneRollup : RollupSetFails(r)
    \/ FlushTurn /\ FlushTick
    \/ FlushMGet
    \/ FlushCreateMany
    \/ FlushFails

\* setInterval keeps firing, so a tick that can start does start, and an await
\* does not stay pending for ever: it resolves or rejects
SpecLoops ==
    /\ Init
    /\ [][NextLoops]_vars
    /\ WF_vars(GravityTurn /\ \E j \in OneJob : GravityTick(j))
    /\ WF_vars(RollupTurn /\ \E r \in OneRollup : RollupTick(r))
    /\ WF_vars(FlushTurn /\ FlushTick)
    /\ WF_vars(\E j \in OneJob : JobMGet(j) \/ JobScanActivities(j) \/ JobMGetActivities(j) \/ JobNext(j) \/ JobEnd(j) \/ DecreaseDecrBy(j)
                                  \/ GravityReadFails(j) \/ GravityGetFails(j) \/ GravityDecrByFails(j))
    /\ WF_vars(\E r \in OneRollup : RollupMGet(r) \/ RollupSetGlobalHeight(r) \/ RollupEnd(r) \/ RollupReadFails(r) \/ RollupSetFails(r))
    /\ WF_vars(FlushMGet \/ FlushCreateMany \/ FlushFails)

\* contributions and rollup ticks that may overlap, with no decay
NextPublish ==
    \/ \E s \in Slots, u \in BoundaryUsers, delta \in PixelInputs : ScrollBatch(s, u, delta)
    \/ \E s \in Slots : BatchIncrement(s)
    \/ \E s \in Slots : BatchLastActivity(s)
    \/ \E s \in Slots : BatchCountryLastActivity(s)
    \/ \E s \in Slots : BatchResolve(s)
    \/ \E d \in ClockSteps : AdvanceClock(d, MaxClock)
    \/ \E r \in RollupIds : RollupTick(r)
    \/ \E r \in RollupIds : RollupMGet(r)
    \/ \E r \in RollupIds : RollupSetGlobalHeight(r)
    \/ \E r \in RollupIds : RollupEnd(r)

SpecPublish == Init /\ [][NextPublish]_vars

\* batches of two sizes between the flushes, so that the samples of a day differ
NextSummary ==
    \/ \E s \in OneSlot, u \in BoundaryUsers, delta \in SummaryPixels : ScrollBatch(s, u, delta)
    \/ \E s \in OneSlot : BatchIncrement(s)
    \/ \E s \in OneSlot : BatchLastActivity(s)
    \/ \E s \in OneSlot : BatchCountryLastActivity(s)
    \/ \E s \in OneSlot : BatchResolve(s)
    \/ (flush.pc = "idle" /\ \A s \in OneSlot : batch[s].pc = "idle") /\ \E d \in DbClockSteps : AdvanceClock(d, MaxDbClock)
    \/ FlushTick
    \/ FlushMGet
    \/ FlushCreateMany
    \/ \E a \in OneAgg : AggStart(a)
    \/ \E a \in OneAgg : AggTransaction(a)
    \/ \E a \in OneAgg : AggTransactionFails(a)
    \/ \E a \in OneAgg, elapsed \in ElapsedMs : AggCleanup(a, elapsed)
    \/ \E a \in OneAgg : AggCleanupFails(a)

SpecSummary == Init /\ [][NextSummary]_vars


\* the four loops of the worker process and its shutdown.  TicksStarted counts
\* the callbacks setInterval and cron have started; nothing of the worker
\* process runs once it has exited, and while the QUIT is pending a command
\* of a tick is answered (it was sent before the QUIT) or rejected
TicksStarted == nJobs + nRollups + nFlushes + nAggs

WorkerAlive == shutdown # "exited"

MayTick == WorkerAlive /\ TicksStarted < MaxTicks

NextShutdown ==
    \/ TicksStarted = 0 /\ \E s \in OneSlot, u \in OneUser, delta \in PixelInputs : ScrollBatch(s, u, delta)
    \/ \E s \in OneSlot : BatchIncrement(s)
    \/ \E s \in OneSlot : BatchLastActivity(s)
    \/ \E s \in OneSlot : BatchCountryLastActivity(s)
    \/ \E s \in OneSlot : BatchResolve(s)
    \/ (shutdown = "running" /\ flush.pc = "idle" /\ \A s \in OneSlot : batch[s].pc = "idle") /\ \E d \in DbClockSteps : AdvanceClock(d, MaxDbClock)
    \/ MayTick /\ \E j \in OneJob : GravityTick(j)
    \/ WorkerAlive /\ \E j \in OneJob : JobMGet(j)
    \/ WorkerAlive /\ \E j \in OneJob : JobScanActivities(j)
    \/ WorkerAlive /\ \E j \in OneJob : JobMGetActivities(j)
    \/ WorkerAlive /\ \E j \in OneJob : JobNext(j)
    \/ WorkerAlive /\ \E j \in OneJob : JobEnd(j)
    \/ WorkerAlive /\ \E j \in OneJob : DecreaseDecrBy(j)
    \/ WorkerAlive /\ \E j \in OneJob : GravityReadFails(j)
    \/ WorkerAlive /\ \E j \in OneJob : GravityGetFails(j)
    \/ WorkerAlive /\ \E j \in OneJob : GravityDecrByFails(j)
    \/ MayTick /\ \E r \in OneRollup : RollupTick(r)
    \/ WorkerAlive /\ \E r \in OneRollup : RollupMGet(r)
    \/ WorkerAlive /\ \E r \in OneRollup : RollupSetGlobalHeight(r)
    \/ WorkerAlive /\ \E r \in OneRollup : RollupEnd(r)
    \/ WorkerAlive /\ \E r \in OneRollup : RollupReadFails(r)
    \/ WorkerAlive /\ \E r \in OneRollup : RollupSetFails(r)
    \/ MayTick /\ FlushTick
    \/ WorkerAlive /\ FlushMGet
    \/ WorkerAlive /\ FlushCreateMany
    \/ WorkerAlive /\ FlushFails
    \/ MayTick /\ \E a \in OneAgg : AggStart(a)
    \/ WorkerAlive /\ \E a \in OneAgg : AggTransaction(a)
    \/ WorkerAlive /\ \E a \in OneAgg : AggTransactionFails(a)
    \/ WorkerAlive /\ \E a \in OneAgg, elapsed \in ElapsedMs : AggCleanup(a, elapsed)
    \/ WorkerAlive /\ \E a \in OneAgg : AggCleanupFails(a)
    \/ Shutdown
    \/ ShutdownExit

SpecShutdown == Init /\ [][NextShutdown]_vars

\* the hot path, the raw flush and the compaction with PostgreSQL going away
\* and coming back: a query succeeds while it is available and rejects while
\* it is not.  getGameState is called once, during an outage, and the global
\* height worker ticks once, before the first flush
NextOutage ==
    \/ nAggs = 0 /\ \E s \in OneSlot, u \in OneUser, delta \in PixelInputs : ScrollBatch(s, u, delta)
    \/ \E s \in OneSlot : BatchIncrement(s)
    \/ \E s \in OneSlot : BatchLastActivity(s)
    \/ \E s \in OneSlot : BatchCountryLastActivity(s)
    \/ \E s \in OneSlot : BatchResolve(s)
    \/ \E d \in HotClockSteps : AdvanceClock(d, MaxHotClock)
    \/ (flush.pc = "idle" /\ \A s \in OneSlot : batch[s].pc = "idle") /\ \E d \in DayClockSteps : AdvanceClock(d, MaxDbClock)
    \/ (nFlushes = 0 /\ nAggs = 0 /\ nRollups = 0) /\ \E r \in OneRollup : RollupTick(r)
    \/ \E r \in OneRollup : RollupMGet(r)
    \/ \E r \in OneRollup : RollupSetGlobalHeight(r)
    \/ \E r \in OneRollup : RollupEnd(r)
    \/ FlushTick
    \/ FlushMGet
    \/ database = "available" /\ FlushCreateMany
    \/ (database = "unavailable" /\ flush.pc = "createMany") /\ FlushFails
    \/ database = "available" /\ \E a \in OneAgg : AggStart(a)
    \/ database = "unavailable" /\ \E a \in OneAgg : AggFindManyFails(a)
    \/ database = "available" /\ \E a \in OneAgg : AggTransaction(a)
    \/ database = "unavailable" /\ \E a \in OneAgg : AggTransactionFails(a)
    \/ database = "available" /\ \E a \in OneAgg, elapsed \in ElapsedMs : AggCleanup(a, elapsed)
    \/ database = "unavailable" /\ \E a \in OneAgg : AggCleanupFails(a)
    \/ (database = "unavailable" /\ nAggs = 0 /\ nStateCalls = 0) /\ GetGameState
    \/ StateGetCurrentVelocity
    \/ StateReturn
    \/ DatabaseFails
    \/ DatabaseRecovers

SpecOutage == Init /\ [][NextOutage]_vars

\* batches of 38 px and of 1 px (0 mm) one idle threshold apart, the awaits
\* of a batch taking up to MaxAwaitMs, and gravity ticks
AwaitingReply == \E s \in OneSlot : batch[s].pc \in {"updateLastActivity", "updateCountryLastActivity"} /\ clock - batch[s].now < MaxAwaitMs

NextRefresh ==
    \/ \E s \in OneSlot, u \in OneUser, delta \in RefreshPixels : ScrollBatch(s, u, delta)
    \/ \E s \in OneSlot : BatchIncrement(s)
    \/ \E s \in OneSlot : BatchLastActivity(s)
    \/ \E s \in OneSlot : BatchCountryLastActivity(s)
    \/ \E s \in OneSlot : BatchResolve(s)
    \/ \E d \in ThresholdSteps : AdvanceClock(d, MaxIdleClock)
    \/ AwaitingReply /\ \E d \in AwaitSteps : AdvanceClock(d, MaxIdleClock)
    \/ \E j \in OneJob : GravityTick(j)
    \/ \E j \in OneJob : JobMGet(j)
    \/ \E j \in OneJob : JobScanActivities(j)
    \/ \E j \in OneJob : JobMGetActivities(j)
    \/ \E j \in OneJob : JobNext(j)
    \/ \E j \in OneJob : JobEnd(j)
    \/ \E j \in OneJob : DecreaseDecrBy(j)

SpecRefresh == Init /\ [][NextRefresh]_vars

\* flushes, a compaction run and a call of getCountryRankings, with two
\* regions that may enter the raw table at different flushes
NextRankings ==
    \/ \E s \in OneSlot, u \in BoundaryUsers, delta \in PixelInputs : ScrollBatch(s, u, delta)
    \/ \E s \in OneSlot : BatchIncrement(s)
    \/ \E s \in OneSlot : BatchLastActivity(s)
    \/ \E s \in OneSlot : BatchCountryLastActivity(s)
    \/ \E s \in OneSlot : BatchResolve(s)
    \/ (flush.pc = "idle" /\ \A s \in OneSlot : batch[s].pc = "idle") /\ \E d \in DbClockSteps : AdvanceClock(d, MaxDbClock)
    \/ FlushTick
    \/ FlushMGet
    \/ FlushCreateMany
    \/ \E a \in OneAgg : AggStart(a)
    \/ \E a \in OneAgg : AggTransaction(a)
    \/ \E a \in OneAgg : AggTransactionFails(a)
    \/ \E a \in OneAgg, elapsed \in ElapsedMs : AggCleanup(a, elapsed)
    \/ \E a \in OneAgg : AggCleanupFails(a)
    \/ GetCountryRankings

SpecRankings == Init /\ [][NextRankings]_vars

(***************************************************************************)
(* Properties.                                                             *)
(***************************************************************************)
\* canonical amounts of the accepted batches whose INCRBY has not run yet
RECURSIVE PendingIncrement(_, _)
PendingIncrement(countryCode, slots) ==
    IF slots = {} THEN 0
    ELSE LET s == CHOOSE x \in slots : TRUE
         IN  (IF batch[s].pc = "incrementCountryHeight" /\ batch[s].countryCode = countryCode THEN batch[s].deltaMillimeters ELSE 0)
             + PendingIncrement(countryCode, slots \ {s})

\* no handler invocation, tick or call is running
Quiescent == (\A s \in Slots : batch[s].pc = "idle") /\ (\A j \in JobIds : job[j].pc = "idle")

\* a batch is past its INCRBY
Incremented(s) == batch[s].pc \in {"updateLastActivity", "updateCountryLastActivity", "resolved"}

\* m is the integer nearest to pixels * 25.4 / 96 (a half rounds up)
IsNearestMillimeters(m, pixels) == 480 * m - 240 <= 127 * pixels /\ 127 * pixels < 480 * m + 240

\* every key but `key` is in both stores or neither, with the same value
SameExcept(before, after, key) ==
    /\ DOMAIN after \ {key} = DOMAIN before \ {key}
    /\ \A k \in DOMAIN before \ {key} : after[k] = before[k]

\* C1: in every reachable state every region's stored height is >= 0, under any
\* interleaving of contributions and decay ticks, overlapping ticks included
C1_HeightsNonNegative == \A c \in Countries : HeightOf(redis, c) >= 0

\* C2: no increment is lost: each region's height is the sum of the amounts of
\* the increments directed at it that have run (all of them, once every call
\* has completed), less what decrements took from it
C2_NoLostIncrement == \A c \in Countries : HeightOf(redis, c) = issued[c] - PendingIncrement(c, Slots) - decayed[c]

\* C2 witness: two concurrent increments of one region have both run
C2_Witness == Incremented(1) /\ Incremented(2) /\ batch[1].countryCode = batch[2].countryCode /\ HeightOf(redis, batch[1].countryCode) = batch[1].deltaMillimeters + batch[2].deltaMillimeters

\* C3: once the contributions and decay ticks on a region are over, its height
\* is the sum of the accepted canonical amounts minus the decay applied, clamped
\* at zero (never negative)
C3_FinalHeightClamped == Quiescent => \A c \in Countries : HeightOf(redis, c) = Max(0, issued[c] - decayed[c])

\* C4: the amount decreaseCountryHeight subtracts is min(amount, height of the
\* region at the instant of the subtraction), whatever ran between its read
\* and its write
C4_AtomicDecrement == (lastDec.valid /\ lastDec.wrote) => lastDec.atWrite - lastDec.after = Min(lastDec.amount, lastDec.atWrite)

\* C5: a decreaseCountryHeight(region, amount) that ran without interference
\* (the height at its write is the height it read) leaves max(0, height - amount)
\* and returns it; on a missing region or a height of zero it returns 0, changes
\* nothing and creates no key
C5_DecreaseAlone ==
    lastDec.valid =>
        IF ~lastDec.existed \/ lastDec.currentValue = 0
        THEN lastDec.returned = 0 /\ ~lastDec.wrote /\ lastDec.existsAfter = lastDec.existed /\ lastDec.after = lastDec.currentValue
        ELSE (lastDec.wrote /\ lastDec.atWrite = lastDec.currentValue) =>
                 (lastDec.after = Max(0, lastDec.currentValue - lastDec.amount) /\ lastDec.returned = lastDec.after)

\* C5 witness: a call that ran alone on a height below its amount left 0
C5_Witness == lastDec.valid /\ lastDec.wrote /\ lastDec.atWrite = lastDec.currentValue /\ lastDec.currentValue > 0 /\ lastDec.currentValue < lastDec.amount /\ lastDec.after = 0 /\ lastDec.returned = 0

\* a step in which the handler of userId passes delta on to processScrollBatch
Submits(s, userId, delta) == ScrollBatch(s, userId, delta) /\ ScrollBatchSchema(delta) /\ clock - lastBatchTime[userId] >= MIN_TIME_DIFF_MS

\* C6: processScrollBatch accepts a batch exactly when its velocity, canonical
\* delta / elapsed ms * 1000, is at most the maximum velocity: equal is
\* accepted, greater is rejected (2000 mm in 1000 ms passes, 2001 mm does not)
C6_VelocityBoundary ==
    [][\A s \in Slots, u \in Users, delta \in BoundaryPixels :
          Submits(s, u, delta) =>
              LET mm == pixelsToMillimeters(delta)
                  elapsed == clock - lastBatchTime[u]
                  accepted == batch'[s].pc = "incrementCountryHeight"
              IN  /\ accepted <=> mm * 1000 <= MAX_VELOCITY_MM_PER_SECOND * elapsed
                  /\ (mm = 2000 /\ elapsed = 1000) => accepted
                  /\ (mm = 2001 /\ elapsed = 1000) => ~accepted /\ batch' = batch]_vars

\* C6 witness: a batch at exactly the maximum velocity is on its way to the store
C6_Witness == \E s \in Slots : batch[s].pc = "incrementCountryHeight" /\ batch[s].deltaMillimeters = 2000 /\ batch[s].timeDiff = 1000

\* C7: a contribution whose canonical delta exceeds MAX_MM_PER_BATCH never
\* reaches the store: the step that receives it changes no key and starts no
\* call, whatever the elapsed time, and no call in flight carries such a delta
C7_BatchCeiling ==
    /\ [](\A s \in Slots : batch[s].pc # "idle" => batch[s].deltaMillimeters <= MAX_MM_PER_BATCH)
    /\ [][\A s \in Slots, u \in Users, delta \in BoundaryPixels :
            (ScrollBatch(s, u, delta) /\ IsNearestMillimeters(MAX_MM_PER_BATCH + 1, delta)) => (redis' = redis /\ batch' = batch)]_vars

\* C7 witness: a contribution above the ceiling was turned away
C7_Witness == log = InvalidLog("u1") /\ nBatches > 0 /\ \A s \in Slots : batch[s].pc = "idle"

\* C8: a rejection by processScrollBatch mutates nothing: the step changes no
\* key of the store (heights, regional and global last activity) and writes a
\* warning naming the contributor and the velocity, and no call whose velocity
\* is above the maximum goes on to the store
C8_RejectionMutatesNothing ==
    /\ [](\A s \in Slots : batch[s].pc # "idle" => batch[s].deltaMillimeters * 1000 <= MAX_VELOCITY_MM_PER_SECOND * batch[s].timeDiff)
    /\ [][\A s \in Slots, u \in Users, delta \in BoundaryPixels :
            (Submits(s, u, delta) /\ pixelsToMillimeters(delta) * 1000 > MAX_VELOCITY_MM_PER_SECOND * (clock - lastBatchTime[u])) =>
                /\ redis' = redis
                /\ batch' = batch
                /\ log'.level = "warn" /\ log'.userId = u
                /\ log'.velocity = MathRound(pixelsToMillimeters(delta) * 100000, clock - lastBatchTime[u])]_vars

\* C8 witness: a batch of 2001 mm in 1000 ms was rejected
C8_Witness == log = SuspiciousLog("u1", 2001, 1000)

\* C9: an accepted batch of p pixels for region R adds exactly the canonical
\* conversion of p to R's height, creating R when absent (100 pixels into a
\* fresh region give 26), sets R's last activity to the current time, and
\* changes no other region's height or last activity
C9_AcceptedBatchEffect ==
    [][\A s \in Slots :
          LET R == batch[s].countryCode
          IN  /\ (batch[s].pc = "incrementCountryHeight" /\ batch'[s].pc = "updateLastActivity") =>
                    /\ HeightKey(R) \in DOMAIN redis'
                    /\ IsNearestMillimeters(HeightOf(redis', R) - HeightOf(redis, R), batch[s].deltaPixels)
                    /\ (batch[s].deltaPixels = 100 /\ HeightKey(R) \notin DOMAIN redis) => HeightOf(redis', R) = 26
                    /\ SameExcept(redis, redis', HeightKey(R))
              /\ (batch[s].pc = "updateLastActivity" /\ batch'[s].pc = "updateCountryLastActivity") =>
                    SameExcept(redis, redis', GlobalLastActivityKey)
              /\ (batch[s].pc = "updateCountryLastActivity" /\ batch'[s].pc = "resolved") =>
                    /\ LastActivityKey(R) \in DOMAIN redis'
                    /\ redis'[LastActivityKey(R)] = clock
                    /\ SameExcept(redis, redis', LastActivityKey(R))
              /\ (batch[s].pc = "resolved" /\ batch'[s].pc = "idle") => redis' = redis]_vars

\* C9 witness: 100 pixels were accepted for a fresh region while another region exists
C9_Witness == \E s \in Slots : batch[s].pc = "resolved" /\ batch[s].deltaPixels = 100 /\ batch[s].countryCode = "TH" /\ HeightOf(redis, "TH") = 26 /\ redis[LastActivityKey("TH")] = clock /\ HeightOf(redis, "US") > 0

\* total of a record of heights, region by region
TotalOf(countryHeights) == (IF "TH" \in DOMAIN countryHeights THEN countryHeights["TH"] ELSE 0) + (IF "US" \in DOMAIN countryHeights THEN countryHeights["US"] ELSE 0)

C11_ReflectedAtNextTick ==
    [][\A r \in RollupIds :
          (rollup[r].pc = "setGlobalHeight" /\ rollup'[r].pc = "previousHeight") =>
              /\ redis'[GlobalHeightKey] >= rollup[r].atStart
              /\ redis'[GlobalHeightKey] <= StoredTotal(redis)
              /\ StoredTotal(redis) = rollup[r].atStart => redis'[GlobalHeightKey] = rollup[r].atStart]_vars

\* C11 witness: a tick that started after a second contribution of 10 has
\* raised the published total from 10 to 20
C11_Witness == \E r \in RollupIds : rollup[r].pc = "previousHeight" /\ previousHeight = 10 /\ rollup[r].atStart = 20 /\ redis[GlobalHeightKey] = 20 /\ \A q \in RollupIds \ {r} : rollup[q].pc = "idle"

\* the last activity of a region as the tick j reads it: the value behind a key
\* its SCAN returned, 0 for a region without one
ActivityRead(j, c) == IF job[j].pc = "mGetActivities" /\ LastActivityKey(c) \in job[j].keys THEN redis[LastActivityKey(c)] ELSE 0

\* C12: a decay tick selects exactly the regions it read with height > 0 and
\* with now - lastActivity strictly above the idle threshold; it calls the
\* decrement by decayPerTick for each of them before it ends, and its steps
\* change the height of no other region and nothing else in the store
C12_DecaySelection ==
    [][\A j \in JobIds : (job[j].kind = "gravity" /\ job'[j] # job[j]) =>
          /\ (job[j].pc \in {"scanActivities", "mGetActivities"} /\ job'[j].pc = "loop") =>
                job'[j].left = {c \in Countries : /\ c \in DOMAIN job[j].countryHeights
                                                   /\ job[j].countryHeights[c] > 0
                                                   /\ job[j].now - ActivityRead(j, c) > COUNTRY_IDLE_THRESHOLD_MS}
          /\ (job[j].pc = "loop" /\ job'[j].pc = "decrBy") =>
                (job'[j].countryCode \in job[j].left /\ job'[j].left = job[j].left \ {job'[j].countryCode} /\ job'[j].amount = GRAVITY_DECAY_MM_PER_TICK /\ redis' = redis)
          /\ (job[j].pc = "loop" /\ job'[j].pc = "loop") =>
                (lastDec'.countryCode \in job[j].left /\ job'[j].left = job[j].left \ {lastDec'.countryCode} /\ redis' = redis)
          /\ (job[j].pc = "loop" /\ job'[j].pc = "idle") => (job[j].left = {} /\ redis' = redis)
          /\ (job[j].pc = "decrBy" /\ job'[j].pc = "loop") =>
                /\ SameExcept(redis, redis', HeightKey(job[j].countryCode))
                /\ HeightOf(redis, job[j].countryCode) - HeightOf(redis', job[j].countryCode) = Min(GRAVITY_DECAY_MM_PER_TICK, job[j].currentValue)]_vars

\* C12 witness: a tick taken one millisecond after TH passed the threshold,
\* with US active, has decayed TH and left US as it was
C12_Witness ==
    \E j \in JobIds : /\ job[j].kind = "gravity" /\ job[j].pc = "loop" /\ job[j].left = {}
                       /\ DOMAIN job[j].countryHeights = {"TH", "US"}
                       /\ {LastActivityKey("TH"), LastActivityKey("US")} \subseteq DOMAIN redis
                       /\ job[j].now - redis[LastActivityKey("TH")] = COUNTRY_IDLE_THRESHOLD_MS + 1
                       /\ job[j].now - redis[LastActivityKey("US")] <= COUNTRY_IDLE_THRESHOLD_MS
                       /\ lastDec.valid /\ lastDec.wrote /\ lastDec.countryCode = "TH"
                       /\ HeightOf(redis, "TH") = 0 /\ HeightOf(redis, "US") = job[j].countryHeights["US"]

\* C13: on a region left idle with no further contribution, every decay tick
\* that writes takes the height down by exactly decayPerTick, or to 0 when less
\* remains, and a tick that finds the region at 0 leaves it at 0
C13_IdleRegionDecaysToZero ==
    lastDec.valid =>
        IF lastDec.wrote
        THEN lastDec.after = Max(0, lastDec.atWrite - GRAVITY_DECAY_MM_PER_TICK)
        ELSE lastDec.after = 0

\* C14: a raw flush appends one raw sample for every region that has an entry
\* in the store when it scans, regions at height 0 included, and writes nothing
\* when there is no region
C14_FlushWritesEveryRegion == lastFlush.valid => lastFlush.written = lastFlush.present

\* the ids of the raw rows inserted so far, and those counted in a daily row
RawIdsIssued == 1 .. (nextRawId - 1)

Summarized == UNION {d.samples : d \in dailyTable}

\* C15: every raw sample that is no longer in the raw table has been counted in
\* a committed daily summary
C15_NoRawDeletedUnsummarized == \A id \in RawIdsIssued : (\E r \in rawTable : r.id = id) \/ id \in Summarized

\* C16: the summaries and the deletion of a compaction run take effect together
\* or not at all: a run whose transaction fails leaves both tables as they
\* were and ends without deleting anything, a run whose transaction commits
\* adds its summaries and removes every raw row it read in the same step, and
\* a run that starts reads every raw row older than its cutoff, those a failed
\* run left behind included
C16_CompactionAllOrNothing ==
    [][\A a \in AggIds :
          /\ (agg[a].pc = "transaction" /\ agg'[a].pc = "idle") => (dailyTable' = dailyTable /\ rawTable' = rawTable)
          /\ (agg[a].pc = "transaction" /\ agg'[a].pc = "cleanupOldData") =>
                /\ agg[a].rawRecords \cap rawTable' = {}
                /\ \A r \in agg[a].rawRecords : \E d \in dailyTable' \ dailyTable : r.id \in d.samples
          /\ (agg[a].pc = "idle" /\ agg'[a].pc # "idle") =>
                agg'[a].rawRecords = {r \in rawTable : r.recordedAt + RAW_RETENTION_MS < clock}]_vars

\* C16 witness: after a run failed in its transaction, with no summary written
\* and the raw row still there, the next run has read the same row
C16_Witness ==
    \E a \in AggIds : /\ agg[a].pc = "transaction" /\ nAggs = 2 /\ \A b \in AggIds \ {a} : agg[b].pc = "idle"
                       /\ nextDailyId > 1 /\ dailyTable = {}
                       /\ agg[a].rawRecords # {} /\ agg[a].rawRecords = rawTable

\* C17: compaction is idempotent: once a run is past its transaction no raw row
\* of its window is left, a run that finds no raw row in its window leaves
\* the daily table as it is, and no step changes or removes a daily row
C17_CompactionIdempotent ==
    /\ [](\A a \in AggIds : agg[a].pc = "cleanupOldData" => OlderThan(rawTable, agg[a].oneDayAgo) = {})
    /\ [][\A a \in AggIds : (agg[a].pc # "idle" /\ agg[a].rawRecords = {} /\ agg'[a] # agg[a]) => dailyTable' = dailyTable]_vars
    /\ [][dailyTable \subseteq dailyTable']_vars

\* C17 witness: a second run, started after the first one committed its
\* summary, found nothing to compact
C17_Witness ==
    \E a \in AggIds : /\ agg[a].pc = "cleanupOldData" /\ agg[a].rawRecords = {} /\ nAggs = 2
                       /\ \A b \in AggIds \ {a} : agg[b].pc = "idle"
                       /\ Cardinality(dailyTable) = 1 /\ nextDailyId = 2

\* C18: no raw sample is counted in the sampleCount of two daily summaries
C18_NoDoubleCount == \A d1, d2 \in dailyTable : d1.id # d2.id => d1.samples \cap d2.samples = {}

\* C19: the daily table holds at most one row for a region and a calendar day
C19_OneSummaryPerRegionDay == \A d1, d2 \in dailyTable : (d1.countryCode = d2.countryCode /\ DayOf(d1.recordedAt) = DayOf(d2.recordedAt)) => d1 = d2

\* C20: the velocity in the object getGameState returns is the rounded velocity
\* of the worker's latest rollup tick at the time getGameState read it
C20_StateVelocityIsWorkerVelocity == gameState.valid => gameState.velocity = gameState.workerVelocity

\* C21: the conversion is monotonic: of two calls, the one with the smaller
\* pixel count does not return the larger result
C21_ConversionMonotonic == convertedBefore.pixels < converted.pixels => convertedBefore.millimeters <= converted.millimeters

\* C21 witness: two calls with negative pixel counts in increasing order whose
\* results differ, and two calls of opposite sign
C21_Witness ==
    \/ convertedBefore.pixels < converted.pixels /\ converted.pixels < 0 /\ convertedBefore.millimeters < converted.millimeters
    \/ convertedBefore.pixels < 0 /\ converted.pixels > 0 /\ convertedBefore.millimeters < 0 /\ converted.millimeters > 0

\* C22: the conversion of -p is the negation of the conversion of p
C22_ConversionOdd == convertedBefore.pixels = 0 - converted.pixels => convertedBefore.millimeters = 0 - converted.millimeters

\* C23: a call of getCountryHistory for a raw-backed range returns, for every
\* raw sample of the region that a flush wrote, that no daily summary counts
\* and whose recordedAt lies in the range, a data point with that timestamp and
\* a decimal string of that height; the data points are in ascending time order
C23_RawRoundTrip ==
    [][nQueries' = nQueries + 1 =>
          /\ \A r \in flushed :
                (r.id \notin Summarized /\ r.countryCode = history'.countryCode /\ r.recordedAt >= history'.since /\ r.recordedAt <= clock) =>
                    \E i \in 1 .. Len(history'.data) : history'.data[i].time = r.recordedAt /\ BigInt(history'.data[i].height) = r.height
          /\ \A i, j \in 1 .. Len(history'.data) : i < j => history'.data[i].time <= history'.data[j].time]_vars

\* the raw retention the history service and the README count on
SEVEN_DAYS_MS == 7 * 24 * 60 * 60 * 1000

\* C24: every raw sample a flush wrote less than seven days ago is still in the
\* raw table
C24_RawKeptSevenDays == \A r \in flushed : clock - r.recordedAt < SEVEN_DAYS_MS => r \in rawTable

\* C25: a batch of a contributor is handed to processScrollBatch only when at
\* least 500 ms have passed since the latest batch of that contributor that was
\* handed to it, whether or not that batch has finished its awaits
C25_ProcessedBatchesSpaced ==
    [][\A u \in Users : (passedOn'[u].n = passedOn[u].n + 1 /\ passedOn[u].n > 0) => passedOn'[u].at - passedOn[u].at >= MIN_TIME_DIFF_MS]_vars

\* C26: a contributor's last-batch timestamp changes only in the step in which
\* an accepted batch of that contributor resolves
C26_LastBatchTimeOnAccept ==
    [][\A u \in Users : lastBatchTime'[u] # lastBatchTime[u] =>
          \E s \in Slots : batch[s].pc = "resolved" /\ batch[s].userId = u /\ batch'[s].pc = "idle"]_vars

\* the last-activity keys of the store, regional and global, with their values
LastActivities(store) == [k \in {x \in DOMAIN store : x[1] = "global:last_activity"} |-> store[k]]

\* C27: no step of a decay tick changes a last-activity timestamp, regional or
\* global
C27_DecayKeepsLastActivity == [][job' # job => LastActivities(redis') = LastActivities(redis)]_vars

\* C27 witness: a decay tick has decremented a region that has a last-activity
\* timestamp, and has ended
C27_Witness ==
    /\ decayed["TH"] > 0
    /\ LastActivityKey("TH") \in DOMAIN redis
    /\ redis[LastActivityKey("TH")] > 0
    /\ \A j \in JobIds : job[j].pc = "idle"

\* C28: when the GET or the DECRBY for a region is rejected in a decay tick, the
\* tick has no idle region with positive height left that it did not call
\* decreaseCountryHeight for
C28_FailureIsolatesRegion ==
    [][(workerError' # workerError /\ workerError'.loop = "gravity" /\ workerError'.countryCode # "") => workerError'.skipped = {}]_vars

\* C29: a step in which a tick of the decay, rollup or raw-flush loop fails
\* logs the error, ends the callback and writes no raw row; no raw row is
\* written afterwards by the tick that failed; and after the failure of tick n
\* of a loop, tick n + 1 of that loop starts
C29_LoopsSurviveFailure ==
    /\ [][workerError' # workerError =>
             /\ workerError'.loop = "gravity" => \A j \in OneJob : job[j].pc # "idle" /\ job'[j].pc = "idle"
             /\ workerError'.loop = "globalHeight" => \A r \in OneRollup : rollup[r].pc # "idle" /\ rollup'[r].pc = "idle"
             /\ workerError'.loop = "persistence" => flush.pc # "idle" /\ flush'.pc = "idle"
             /\ rawTable' = rawTable]_vars
    /\ [][rawTable' # rawTable => ~(workerError.loop = "persistence" /\ workerError.tick = nFlushes)]_vars
    /\ \A n \in 1 .. (MaxJobs - 1) : (workerError.loop = "gravity" /\ workerError.tick = n) ~> (nJobs > n)
    /\ \A n \in 1 .. (MaxRollups - 1) : (workerError.loop = "globalHeight" /\ workerError.tick = n) ~> (nRollups > n)
    /\ \A n \in 1 .. (MaxFlushes - 1) : (workerError.loop = "persistence" /\ workerError.tick = n) ~> (nFlushes > n)

\* C29 witness: the first raw flush failed at its createMany, the second one
\* wrote its own row, and no row of the first exists
C29_Witness ==
    /\ workerError.loop = "persistence" /\ workerError.command = "createMany" /\ workerError.tick = 1
    /\ nFlushes = 2
    /\ flush.pc = "idle"
    /\ Cardinality(rawTable) = 1
    /\ nextRawId = 2

\* C30: when a tick of the global height worker ends without an error, the
\* stored velocity is the total of this tick less the total of the latest
\* tick that ended before it (0 when there is none), divided by the window
C30_VelocityIsDifference ==
    [][\A r \in RollupIds : (rollup[r].pc = "previousHeight" /\ rollup'[r].pc = "idle") =>
          currentVelocity' * VELOCITY_WINDOW_SECONDS = rollup[r].globalHeightMm - published.total]_vars

\* C31: whenever a tick of the global height worker ends, with or without an
\* error and with other ticks in flight or not, previousHeight is the
\* value the worker wrote last to global:height (0 when it has written none)
C31_PreviousHeightIsLastWritten ==
    [][\A r \in RollupIds : (rollup[r].pc # "idle" /\ rollup'[r].pc = "idle") =>
          previousHeight' = getGlobalHeight(redis')]_vars

\* the raw samples counted in a daily summary
SamplesOf(d) == {r \in flushed : r.id \in d.samples}

\* C32: every daily summary stands for a group of at least one raw sample of
\* its region and its calendar day; sampleCount is the size of the group,
\* minHeight and maxHeight are the least and the greatest height in it, height
\* is the mean rounded to the nearest integer (a half rounds up), and
\* minHeight <= height <= maxHeight
C32_SummaryOfGroup ==
    \A d \in dailyTable :
        LET group == SamplesOf(d)
            heights == {r.height : r \in group}
            n == Cardinality(group)
        IN  /\ n >= 1 /\ d.sampleCount = n
            /\ \A r \in group : r.countryCode = d.countryCode /\ DayOf(r.recordedAt) = DayOf(d.recordedAt)
            /\ d.minHeight \in heights /\ \A h \in heights : d.minHeight <= h
            /\ d.maxHeight \in heights /\ \A h \in heights : d.maxHeight >= h
            /\ 2 * n * d.height - n <= 2 * SumOfHeights(group) /\ 2 * SumOfHeights(group) < 2 * n * d.height + n
            /\ d.minHeight <= d.height /\ d.height <= d.maxHeight

\* C32 witness: a summary of two samples of TH of one day, 10 and 11, whose
\* mean 10.5 is stored as 11
C32_Witness ==
    \E d \in dailyTable : /\ d.countryCode = "TH" /\ d.sampleCount = 2
                           /\ d.minHeight = 10 /\ d.maxHeight = 11 /\ d.height = 11
                           /\ {r.height : r \in SamplesOf(d)} = {10, 11}

\* C33: a row of the daily table stays in it with every field as it was
\* created, and no other row takes its id, whatever step is taken: a raw
\* flush, a step of a compaction run (committed or failed) or a cleanup
C33_DailyRowsFrozen ==
    [][\A d \in dailyTable : /\ d \in dailyTable'
                             /\ \A e \in dailyTable' : e.id = d.id => e = d]_vars

\* C33 witness: two runs have ended, the daily table holds the one summary
\* that was created, and a raw sample flushed a day or more after the
\* summarized one is in the raw table
C33_Witness ==
    /\ nAggs = 2 /\ \A a \in AggIds : agg[a].pc = "idle"
    /\ Cardinality(dailyTable) = 1 /\ nextDailyId = 2
    /\ \E d \in dailyTable : \E r \in rawTable : r.recordedAt >= d.recordedAt + RAW_RETENTION_MS
    /\ flush.pc = "idle" /\ nFlushes = 2

\* C34: a region that has received an accepted contribution (its height key
\* exists: only the INCRBY of an accepted batch creates it) is in the result
\* of getAllCountryHeights() in every later state
C34_RegionStaysListed ==
    \A c \in Countries : HeightKey(c) \in DOMAIN redis => c \in DOMAIN getAllCountryHeights(redis, RedisScan(redis, "global:height"))

\* a tick of a loop of the worker process is running
TickInProgress ==
    \/ \E j \in JobIds : job[j].pc # "idle"
    \/ \E r \in RollupIds : rollup[r].pc # "idle"
    \/ flush.pc # "idle"
    \/ \E a \in AggIds : agg[a].pc # "idle"

\* C35: once shutdown has begun no tick of the decay, rollup, raw-flush or
\* compaction loop starts, and the process does not exit under a tick that is
\* still running
C35_CleanShutdown ==
    [][/\ shutdown # "running" => (nJobs' = nJobs /\ nRollups' = nRollups /\ nFlushes' = nFlushes /\ nAggs' = nAggs)
       /\ (shutdown = "quit" /\ shutdown' = "exited") => ~TickInProgress]_vars

\* a step in which a query of the persistence worker or of a compaction run
\* rejects: the createMany of a flush, the findMany, the transaction or the
\* cleanup of a run
StoreFailure ==
    \/ flush.pc = "createMany" /\ flush'.pc = "idle" /\ rawTable' = rawTable
    \/ \E a \in AggIds : agg[a].pc = "transaction" /\ agg'[a].pc = "idle"
    \/ \E a \in AggIds : database = "unavailable" /\ agg[a].pc = "cleanupOldData" /\ agg'[a].pc = "idle"
    \/ database = "unavailable" /\ nAggs' = nAggs + 1

\* C36: a rejected query of a raw flush or of a compaction run leaves every
\* regional height, every last-activity timestamp and global:height as they
\* were, and while PostgreSQL is unavailable every pending step of
\* processScrollBatch and of getGameState can be taken, and a new batch and a
\* new getGameState call are served as they are while it is available
C36_StoreFailureInvisible ==
    /\ [][StoreFailure => redis' = redis]_vars
    /\ [](database = "unavailable" =>
            /\ \A s \in Slots : /\ (batch[s].pc = "incrementCountryHeight" => ENABLED BatchIncrement(s))
                                 /\ (batch[s].pc = "updateLastActivity" => ENABLED BatchLastActivity(s))
                                 /\ (batch[s].pc = "updateCountryLastActivity" => ENABLED BatchCountryLastActivity(s))
                                 /\ (batch[s].pc = "resolved" => ENABLED BatchResolve(s))
            /\ (stateCall.pc = "getCurrentVelocity" => ENABLED StateGetCurrentVelocity)
            /\ (stateCall.pc = "mGet" => ENABLED StateReturn)
            /\ ((stateCall.pc = "idle" /\ nStateCalls < MaxStateCalls) => ENABLED GetGameState)
            /\ ((batch[1].pc = "idle" /\ nBatches < MaxBatches) => ENABLED ScrollBatch(1, "u1", 38)))

\* C36 witness: PostgreSQL is unavailable, the createMany of the second flush
\* has been rejected with TH at 20 and a published total of 10, and a batch
\* and a getGameState call have run to their end
C36_Witness ==
    /\ database = "unavailable"
    /\ workerError.loop = "persistence" /\ workerError.command = "createMany" /\ workerError.tick = 2
    /\ HeightOf(redis, "TH") = 20 /\ getGlobalHeight(redis) = 10
    /\ redis[LastActivityKey("TH")] = clock
    /\ \E s \in Slots : batch[s].pc = "resolved"
    /\ gameState.valid /\ gameState.height = 10 /\ stateCall.pc = "idle"

\* C37: a decay tick decrements no region whose latest accepted contribution
\* was added less than the idle threshold before the tick began, whether or not
\* the last-activity update of that contribution had been written by then
C37_ActiveRegionNotDecayed ==
    [][\A j \in JobIds : (job[j].kind = "gravity" /\ job[j].pc = "decrBy" /\ job'[j].pc = "loop") =>
          LET added == lastAdded[job[j].countryCode]
          IN  ~(added > 0 /\ added <= job[j].now /\ job[j].now - added < COUNTRY_IDLE_THRESHOLD_MS)]_vars

\* C38: the last activity of a region without a timestamp reads as 0; a decay
\* tick that read a positive height for such a region selects it (it has been
\* idle since time 0), and its DECRBY for a region it selected lowers the
\* height
C38_NoTimestampIsIdle ==
    /\ [](\A c \in Countries : LastActivityKey(c) \notin DOMAIN redis => getCountryLastActivity(redis, c) = 0)
    /\ [][\A j \in JobIds : (job[j].kind = "gravity" /\ job[j].pc \in {"scanActivities", "mGetActivities"} /\ job'[j].pc = "loop") =>
            \A c \in DOMAIN job[j].countryHeights :
                (job[j].countryHeights[c] > 0 /\ LastActivityKey(c) \notin DOMAIN redis) => c \in job'[j].left]_vars
    /\ [][\A j \in JobIds : (job[j].kind = "gravity" /\ job[j].pc = "decrBy" /\ job'[j].pc = "loop") =>
            HeightOf(redis', job[j].countryCode) < HeightOf(redis, job[j].countryCode)]_vars

\* C38 witness: TH, with a height of 10 and no last-activity key, has been
\* brought to 0 by a tick
C38_Witness ==
    /\ LastActivityKey("TH") \notin DOMAIN redis
    /\ lastDec.valid /\ lastDec.wrote /\ lastDec.countryCode = "TH" /\ lastDec.currentValue = 10
    /\ HeightOf(redis, "TH") = 0 /\ decayed["TH"] = 10

\* C39: a batch that passes the velocity check goes on to the store whatever
\* its canonical delta, 0 included, and when it has resolved the last activity
\* of its region is not older than the batch; and a decay tick decrements no
\* region that has received a contribution within the idle threshold before
\* the tick began
C39_SmallBatchesKeepAlive ==
    /\ [][\A s \in Slots, u \in Users, delta \in RefreshPixels :
            (Submits(s, u, delta) /\ ~ExceedsMaxVelocity(pixelsToMillimeters(delta), clock - lastBatchTime[u])) =>
                batch'[s].pc = "incrementCountryHeight"]_vars
    /\ [](\A s \in Slots : batch[s].pc = "resolved" =>
            (LastActivityKey(batch[s].countryCode) \in DOMAIN redis /\ redis[LastActivityKey(batch[s].countryCode)] >= batch[s].now))
    /\ [][\A j \in JobIds : (job[j].kind = "gravity" /\ job[j].pc = "decrBy" /\ job'[j].pc = "loop") =>
            LET added == lastAdded[job[j].countryCode]
            IN  ~(added > 0 /\ added <= job[j].now /\ job[j].now - added <= COUNTRY_IDLE_THRESHOLD_MS)]_vars

\* the latest known height of a region in a daily table: the height of its
\* row with the latest recordedAt
LatestHeights(table, countryCode) == {d.height : d \in {x \in table : x.countryCode = countryCode /\ \A y \in table : y.countryCode = countryCode => y.recordedAt <= x.recordedAt}}

\* C40: a call of getCountryRankings returns one item for every region that
\* has a row in the daily table and no other, each with the latest known
\* height of its region, in descending order of height, with ranks 1..n
C40_RankingsComplete ==
    rankings.valid =>
        LET items == rankings.items
            n == Len(items)
        IN  /\ {items[i].countryCode : i \in 1 .. n} = {d.countryCode : d \in rankings.table}
            /\ \A i, k \in 1 .. n : items[i].countryCode = items[k].countryCode => i = k
            /\ \A i \in 1 .. n : items[i].rank = i /\ BigInt(items[i].height) \in LatestHeights(rankings.table, items[i].countryCode)
            /\ \A i, k \in 1 .. n : i < k => BigInt(items[i].height) >= BigInt(items[k].height)

====
